---- MODULE Spec2Model ----
(***************************************************************************)
(* DeckDrop: a 3x5 connect-three game (GameLogic, WinChecker) with an AI   *)
(* opponent whose moves are scheduled through timers.                      *)
(*                                                                         *)
(* The module models GameLogic (game-logic.ts) as a state machine whose    *)
(* operations are the public methods makeMove, resetGame, setAIPlayer and  *)
(* setVsAI, plus the two halves of the asynchronous makeAIMove (the timer  *)
(* callback up to the await, and the continuation that applies the         *)
(* strategy's answer) and the continuation of resetGame after its 100 ms   *)
(* render delay.                                                           *)
(***************************************************************************)
EXTENDS Integers, Sequences, FiniteSets, TLC

VARIABLES
    board,          \* GameLogic.board: board[r][c], row 0 is the entry row, row 2 the floor
    currentPlayer,  \* GameLogic.currentPlayer
    gameOver,       \* GameLogic.gameOver
    vsAI,           \* GameLogic.vsAI
    aiIsPlayerTwo,  \* GameLogic.aiOpponent.isPlayerTwo
    aiTimers,       \* number of pending setTimeout(makeAIMove, aiDelay) callbacks
    aiAwaiting,     \* number of makeAIMove invocations suspended at `await getBestMove`
    resetWaiting,   \* number of resetGame invocations suspended at the 100 ms render delay
    renderCallback, \* whether GameLogic.renderCallback is registered (setRenderCallback)
    resetTimers,    \* number of pending setTimeout(resetGame, 5000) callbacks of DeckDropGame.onKeyDown
    strategy,       \* the kind of AIOpponent.strategy: "mcts", "qlearning" or "groq"
    onWinCount,     \* number of onWin invocations since the last reset (observation)
    last,           \* observation of the last operation: its name, argument, return value, callbacks
    isPlayerTwo,     \* isPlayerTwo of the active strategy (MCTSOpponent, QLearningStrategy or GroqOpponent)
    simulationCount, \* MCTSOpponent.simulationCount
    pc,              \* position of the running MCTSOpponent.getBestMove call ("idle" if none)
    tree,            \* the MCTSNode objects of the call, the root first; nodes refer to each other by index
    simCount,        \* local simCount of getBestMove
    node,            \* local node of the search loop (an index into tree)
    state,           \* local state of the rollout
    playerJustMoved, \* local playerJustMoved of the rollout
    bestMove         \* the value returned by getBestMove

mctsVars == <<isPlayerTwo, simulationCount, pc, tree, simCount, node, state, playerJustMoved, bestMove>>

vars == <<board, currentPlayer, gameOver, vsAI, aiIsPlayerTwo,
          aiTimers, aiAwaiting, resetWaiting, renderCallback, resetTimers, strategy, onWinCount, last,
          isPlayerTwo, simulationCount, pc, tree, simCount, node, state, playerJustMoved, bestMove>>

(***************************************************************************)
(* Program constants                                                       *)
(***************************************************************************)
EMPTY == 0
PLAYER_ONE == 1
PLAYER_TWO == 2
NumRows == 3
NumCols == 5

Rows == 0 .. (NumRows - 1)
Cols == 0 .. (NumCols - 1)
Players == {PLAYER_ONE, PLAYER_TWO}

(***************************************************************************)
(* Bounds of the model                                                     *)
(***************************************************************************)
\* at most this many asynchronous tasks (AI timers, suspended makeAIMove
\* and suspended resetGame invocations) are pending at the same time
MaxTasks == 1

\* under Spec and SpecDeck at most this many tokens are on the board
MaxTokens == 5

\* under SpecAIFirst at most this many asynchronous tasks are pending
MaxResetTasks == 2

\* under SpecAnyBoard at most this many cells of the board are occupied
MaxCells == 4

\* under SpecMCTS the simulation budget of the search is at most this
MaxSims == 2

\* under SpecMCTS the search loop is entered on boards with at most this many Empty cells
MaxOpenCells == 3

\* under SpecSearch the simulation budget of the search is at most this
MaxSearchSims == 3

\* under SpecSearch getBestMove is called on boards with at most this many Empty cells
MaxSearchOpenCells == 3

\* under SpecStrategy at most this many tokens are on the board
MaxStrategyTokens == 2

EmptyBoard == [r \in Rows |-> [c \in Cols |-> EMPTY]]

\* a mutant of Other that does not switch
OtherSame(p) == p

\* currentPlayer === PLAYER_ONE ? PLAYER_TWO : PLAYER_ONE
Other(p) == IF p = PLAYER_ONE THEN PLAYER_TWO ELSE PLAYER_ONE

(***************************************************************************)
(* WinChecker                                                              *)
(* Every check returns the sequence of showWinnerCallback invocations it   *)
(* makes (each a record of the positions and the player); the boolean it   *)
(* returns in the code is "the sequence is not empty".                     *)
(***************************************************************************)
\* a mutant of HorizontalScan that does not restart the count at a gap
RECURSIVE HorizontalScanNoRestart(_, _, _, _, _, _)
HorizontalScanNoRestart(b, row, player, c, count, startCol) ==
    IF c >= NumCols THEN <<>>
    ELSE IF b[row][c] = player
         THEN LET s == IF count = 0 THEN c ELSE startCol
                  n == count + 1
              IN  IF n = 3
                  THEN << [positions |-> << <<row, s>>, <<row, s + 1>>, <<row, s + 2>> >>,
                           player |-> player] >>
                  ELSE HorizontalScanNoRestart(b, row, player, c + 1, n, s)
         ELSE HorizontalScanNoRestart(b, row, player, c + 1, count, startCol)

RECURSIVE HorizontalScan(_, _, _, _, _, _)
HorizontalScan(b, row, player, c, count, startCol) ==
    IF c >= NumCols THEN <<>>
    ELSE IF b[row][c] = player
         THEN LET s == IF count = 0 THEN c ELSE startCol
                  n == count + 1
              IN  IF n = 3
                  THEN << [positions |-> << <<row, s>>, <<row, s + 1>>, <<row, s + 2>> >>,
                           player |-> player] >>
                  ELSE HorizontalScan(b, row, player, c + 1, n, s)
         ELSE HorizontalScan(b, row, player, c + 1, 0, startCol)

checkHorizontalWin(b, row, player) == HorizontalScan(b, row, player, 0, 0, 0)

RECURSIVE VerticalScan(_, _, _, _, _, _)
VerticalScan(b, col, player, r, count, startRow) ==
    IF r >= NumRows THEN <<>>
    ELSE IF b[r][col] = player
         THEN LET s == IF count = 0 THEN r ELSE startRow
                  n == count + 1
              IN  IF n = 3
                  THEN << [positions |-> << <<s, col>>, <<s + 1, col>>, <<s + 2, col>> >>,
                           player |-> player] >>
                  ELSE VerticalScan(b, col, player, r + 1, n, s)
         ELSE VerticalScan(b, col, player, r + 1, 0, startRow)

checkVerticalWin(b, col, player) == VerticalScan(b, col, player, 0, 0, 0)

\* for r = 0 only, c = 0..2: the first diagonal (r,c),(r+1,c+1),(r+2,c+2) of the player
RECURSIVE DiagonalDownScan(_, _, _)
DiagonalDownScan(b, player, c) ==
    IF c > 2 THEN <<>>
    ELSE IF 0 + 2 < NumRows /\ c + 2 < NumCols
            /\ b[0][c] = player /\ b[1][c + 1] = player /\ b[2][c + 2] = player
         THEN << [positions |-> << <<0, c>>, <<1, c + 1>>, <<2, c + 2>> >>,
                  player |-> player] >>
         ELSE DiagonalDownScan(b, player, c + 1)

checkDiagonalDownWin(b, player) == DiagonalDownScan(b, player, 0)

\* for r = 2 only, c = 0..2: the first diagonal (r,c),(r-1,c+1),(r-2,c+2) of the player
RECURSIVE DiagonalUpScan(_, _, _)
DiagonalUpScan(b, player, c) ==
    IF c > 2 THEN <<>>
    ELSE IF 2 - 2 >= 0 /\ c + 2 < NumCols
            /\ b[2][c] = player /\ b[1][c + 1] = player /\ b[0][c + 2] = player
         THEN << [positions |-> << <<2, c>>, <<1, c + 1>>, <<0, c + 2>> >>,
                  player |-> player] >>
         ELSE DiagonalUpScan(b, player, c + 1)

\* a mutant of checkDiagonalUpWin that looks for PlayerOne's tokens only
checkDiagonalUpWinPlayerOne(b, player) == DiagonalUpScan(b, PLAYER_ONE, 0)

checkDiagonalUpWin(b, player) == DiagonalUpScan(b, player, 0)

\* a mutant of checkWinner that leaves out the vertical check
checkWinnerNoVertical(b, row, col) ==
    LET player == b[row][col]
        h == checkHorizontalWin(b, row, player)
        d == checkDiagonalDownWin(b, player)
        u == checkDiagonalUpWin(b, player)
    IN  IF h # <<>> THEN h
        ELSE IF d # <<>> THEN d
        ELSE u

\* a mutant of checkWinner that evaluates all four checks (no short circuit)
checkWinnerNoShortCircuit(b, row, col) ==
    LET player == b[row][col]
    IN  checkHorizontalWin(b, row, player) \o checkVerticalWin(b, col, player)
        \o checkDiagonalDownWin(b, player) \o checkDiagonalUpWin(b, player)

\* the four checks joined with ||: the first one that reports ends the evaluation
checkWinner(b, row, col) ==
    LET player == b[row][col]
        h == checkHorizontalWin(b, row, player)
        v == checkVerticalWin(b, col, player)
        d == checkDiagonalDownWin(b, player)
        u == checkDiagonalUpWin(b, player)
    IN  IF h # <<>> THEN h
        ELSE IF v # <<>> THEN v
        ELSE IF d # <<>> THEN d
        ELSE u

(***************************************************************************)
(* GameLogic                                                               *)
(***************************************************************************)
\* the loop `for (let r = 2; r >= 0; r--)` of makeMove: the first Empty row
\* met from the floor upward, -1 if there is none
RECURSIVE LowestEmptyRowFrom(_, _, _)
LowestEmptyRowFrom(b, column, r) ==
    IF r < 0 THEN -1
    ELSE IF b[r][column] = EMPTY THEN r
    ELSE LowestEmptyRowFrom(b, column, r - 1)

\* a mutant of LowestEmptyRow that scans from the entry row downward
LowestEmptyRowTopDown(b, column) ==
    IF b[0][column] = EMPTY THEN 0
    ELSE IF b[1][column] = EMPTY THEN 1
    ELSE IF b[2][column] = EMPTY THEN 2
    ELSE -1

\* a mutant of LowestEmptyRow that never reports a full column (row 0 instead)
LowestEmptyRowOverwrite(b, column) ==
    IF LowestEmptyRowFrom(b, column, NumRows - 1) = -1 THEN 0
    ELSE LowestEmptyRowFrom(b, column, NumRows - 1)

\* a mutant of LowestEmptyRow whose loop stops before row 0 (r > 0)
LowestEmptyRowSkipTop(b, column) ==
    IF b[2][column] = EMPTY THEN 2
    ELSE IF b[1][column] = EMPTY THEN 1
    ELSE -1

LowestEmptyRow(b, column) == LowestEmptyRowFrom(b, column, NumRows - 1)

\* a mutant of isBoardFull with the comparison inverted
isBoardFullInverted(b) == \A c \in Cols : \A r \in Rows : b[r][c] = EMPTY

isBoardFull(b) == \A c \in Cols : \A r \in Rows : b[r][c] # EMPTY

\* MCTSOpponent.getValidMoves / QLearningStrategy.getValidActions: the columns
\* whose row-0 cell is Empty, in increasing order
RECURSIVE ValidMovesFrom(_, _)
ValidMovesFrom(b, col) ==
    IF col >= NumCols THEN <<>>
    ELSE IF b[0][col] = EMPTY THEN <<col>> \o ValidMovesFrom(b, col + 1)
    ELSE ValidMovesFrom(b, col + 1)

getValidMoves(b) == ValidMovesFrom(b, 0)

\* the condition under which makeMove schedules an AI move after switching
ShouldScheduleAI(isVsAI, go, aiP2, cp) ==
    isVsAI /\ ~go /\ ((aiP2 /\ cp = PLAYER_TWO) \/ (~aiP2 /\ cp = PLAYER_ONE))

\* the result of a makeMove call that returns false: nothing changes
Rejected(b, cp, go) ==
    [board |-> b, currentPlayer |-> cp, gameOver |-> go,
     ret |-> FALSE, row |-> -1, onWin |-> <<>>, scheduled |-> FALSE]

\* a mutant of Outcome that looks at the full board before the winner
OutcomeDrawFirst(nb, row, column) ==
    IF isBoardFull(nb) THEN [over |-> TRUE, onWin |-> <<>>]
    ELSE LET win == checkWinner(nb, row, column) IN
         IF win # <<>> THEN [over |-> TRUE, onWin |-> win]
         ELSE [over |-> FALSE, onWin |-> <<>>]

\* makeMove after the placement: the winner check first (it invokes onWin),
\* the draw check only when the winner check returned false
Outcome(nb, row, column) ==
    LET win == checkWinner(nb, row, column) IN
    IF win # <<>> THEN [over |-> TRUE, onWin |-> win]
    ELSE IF isBoardFull(nb) THEN [over |-> TRUE, onWin |-> <<>>]
    ELSE [over |-> FALSE, onWin |-> <<>>]

\* makeMove after the game-over check: find the row, place the token, judge
\* the board, switch the player and schedule the AI's move
PlaceToken(b, cp, isVsAI, aiP2, column) ==
    LET row == LowestEmptyRow(b, column) IN
    IF row = -1 THEN Rejected(b, cp, FALSE)
    ELSE LET nb == [b EXCEPT ![row][column] = cp]
             o  == Outcome(nb, row, column)
         IN  IF o.over
             THEN [board |-> nb, currentPlayer |-> cp, gameOver |-> TRUE,
                   ret |-> TRUE, row |-> row, onWin |-> o.onWin, scheduled |-> FALSE]
             ELSE LET np == Other(cp) IN
                  [board |-> nb, currentPlayer |-> np, gameOver |-> FALSE,
                   ret |-> TRUE, row |-> row, onWin |-> <<>>,
                   scheduled |-> ShouldScheduleAI(isVsAI, FALSE, aiP2, np)]

\* a mutant of makeMove without the game-over check
makeMoveNoGameOverCheck(b, cp, go, isVsAI, aiP2, column) ==
    PlaceToken(b, cp, isVsAI, aiP2, column)

\* The result of GameLogic.makeMove(column, onWin) in the state (b, cp, go):
\* the new board, player and flag, the return value, the row of the placed
\* token (-1 if none), the onWin invocations and whether an AI timer is set.
makeMove(b, cp, go, isVsAI, aiP2, column) ==
    IF go THEN Rejected(b, cp, go)
    ELSE PlaceToken(b, cp, isVsAI, aiP2, column)

NoCall == [op |-> "none", col |-> -1, row |-> -1, ret |-> FALSE, onWin |-> <<>>, scheduled |-> FALSE]

\* the state change of a makeMove(column, onWin) call, whoever the caller is
ApplyMakeMove(column) ==
    \E m \in {makeMove(board, currentPlayer, gameOver, vsAI, aiIsPlayerTwo, column)} :
        /\ board' = m.board
        /\ currentPlayer' = m.currentPlayer
        /\ gameOver' = m.gameOver
        /\ aiTimers' = IF m.scheduled THEN aiTimers + 1 ELSE aiTimers
        /\ onWinCount' = onWinCount + Len(m.onWin)
        /\ last' = [op |-> "makeMove", col |-> column, row |-> m.row, ret |-> m.ret,
                    onWin |-> m.onWin, scheduled |-> m.scheduled]

\* no getBestMove call of the tree-search opponent is running
MCTSIdle ==
    /\ isPlayerTwo = TRUE
    /\ simulationCount = 0
    /\ pc = "idle"
    /\ tree = <<>>
    /\ simCount = 0
    /\ node = 0
    /\ state = EmptyBoard
    /\ playerJustMoved = PLAYER_ONE
    /\ bestMove = -1

Init ==
    /\ board = EmptyBoard
    /\ currentPlayer = PLAYER_ONE
    /\ gameOver = FALSE
    /\ vsAI = TRUE
    /\ aiIsPlayerTwo = TRUE
    /\ aiTimers = 0
    /\ aiAwaiting = 0
    /\ resetWaiting = 0
    /\ renderCallback = TRUE
    /\ resetTimers = 0
    /\ strategy = "mcts"
    /\ onWinCount = 0
    /\ last = NoCall
    /\ MCTSIdle

\* makeMove(column, onWin) called from outside (the key-press handler of the top row)
MakeMove(column) ==
    /\ ApplyMakeMove(column)
    /\ UNCHANGED <<vsAI, aiIsPlayerTwo, aiAwaiting, resetWaiting, renderCallback>>
    /\ UNCHANGED <<resetTimers, strategy, mctsVars>>

\* a makeAIMove timer fires: the invocation returns at once when the game is
\* over, otherwise it asks the strategy and suspends at the await
AIMoveStart ==
    /\ aiTimers > 0
    /\ aiTimers' = aiTimers - 1
    /\ aiAwaiting' = IF gameOver THEN aiAwaiting ELSE aiAwaiting + 1
    /\ last' = [NoCall EXCEPT !.op = "other"]
    /\ UNCHANGED <<board, currentPlayer, gameOver, vsAI, aiIsPlayerTwo, resetWaiting, renderCallback, onWinCount>>
    /\ UNCHANGED <<resetTimers, strategy, mctsVars>>

\* the strategy's answer arrives: a column in [0,5) is handed to makeMove,
\* anything else (answer -1 stands for every other value, or a throw) is logged
AIMoveResume(aiColumn) ==
    /\ aiAwaiting > 0
    /\ IF aiColumn >= 0 /\ aiColumn < 5
       THEN /\ ApplyMakeMove(aiColumn)
            /\ aiAwaiting' = aiAwaiting - 1
       ELSE /\ aiAwaiting' = aiAwaiting - 1
            /\ last' = [NoCall EXCEPT !.op = "other"]
            /\ UNCHANGED <<board, currentPlayer, gameOver, aiTimers, onWinCount>>
    /\ UNCHANGED <<vsAI, aiIsPlayerTwo, resetWaiting, renderCallback>>
    /\ UNCHANGED <<resetTimers, strategy, mctsVars>>

\* resetGame: the state is reset; with a render callback the board is rendered
\* and the invocation suspends for 100 ms, without one it goes on at once to
\* schedule the AI's move if the AI is player 1
ApplyResetGame ==
    /\ board' = EmptyBoard
    /\ currentPlayer' = PLAYER_ONE
    /\ gameOver' = FALSE
    /\ IF renderCallback
       THEN /\ resetWaiting' = resetWaiting + 1
            /\ aiTimers' = aiTimers
       ELSE /\ resetWaiting' = resetWaiting
            /\ aiTimers' = IF vsAI /\ ~aiIsPlayerTwo THEN aiTimers + 1 ELSE aiTimers
    /\ onWinCount' = 0
    /\ last' = [NoCall EXCEPT !.op = "resetGame"]
    /\ UNCHANGED <<vsAI, aiIsPlayerTwo, aiAwaiting, renderCallback, strategy>>
    /\ UNCHANGED mctsVars

\* resetGame called from outside
ResetGame ==
    /\ ApplyResetGame
    /\ UNCHANGED resetTimers

\* resetGame after the render delay: if the AI is player 1 its move is scheduled
ResetResume ==
    /\ resetWaiting > 0
    /\ resetWaiting' = resetWaiting - 1
    /\ aiTimers' = IF vsAI /\ ~aiIsPlayerTwo THEN aiTimers + 1 ELSE aiTimers
    /\ last' = [NoCall EXCEPT !.op = "other"]
    /\ UNCHANGED <<board, currentPlayer, gameOver, vsAI, aiIsPlayerTwo, aiAwaiting,
                   renderCallback, onWinCount>>
    /\ UNCHANGED <<resetTimers, strategy, mctsVars>>

SetVsAI(v) ==
    /\ vsAI' = v
    /\ last' = [NoCall EXCEPT !.op = "other"]
    /\ UNCHANGED <<board, currentPlayer, gameOver, aiIsPlayerTwo, aiTimers, aiAwaiting,
                   resetWaiting, renderCallback, onWinCount>>
    /\ UNCHANGED <<resetTimers, strategy, mctsVars>>

\* setAIPlayer hands the side to AIOpponent.setIsPlayerTwo, which stores it and
\* passes it on to the active strategy, and calls makeAIMove directly (no
\* timer) when the AI becomes player 1 on its turn
SetAIPlayer(p2) ==
    /\ aiIsPlayerTwo' = p2
    /\ aiAwaiting' = IF ~p2 /\ currentPlayer = PLAYER_ONE /\ vsAI /\ ~gameOver
                     THEN aiAwaiting + 1 ELSE aiAwaiting
    /\ last' = [NoCall EXCEPT !.op = "other"]
    /\ UNCHANGED <<board, currentPlayer, gameOver, vsAI, aiTimers, resetWaiting,
                   renderCallback, onWinCount>>
    /\ isPlayerTwo' = p2
    /\ UNCHANGED <<resetTimers, strategy, simulationCount, pc, tree, simCount, node, state,
                   playerJustMoved, bestMove>>

\* the number of occupied cells of a row, and of a board
TokensInRow(row) ==
    (IF row[0] # EMPTY THEN 1 ELSE 0) + (IF row[1] # EMPTY THEN 1 ELSE 0)
    + (IF row[2] # EMPTY THEN 1 ELSE 0) + (IF row[3] # EMPTY THEN 1 ELSE 0)
    + (IF row[4] # EMPTY THEN 1 ELSE 0)

Tokens(b) == TokensInRow(b[0]) + TokensInRow(b[1]) + TokensInRow(b[2])

\* the bounds of the model: an operation that would leave more pending tasks
\* or more tokens than the bounds allow is not taken
TasksBounded == aiTimers' + aiAwaiting' + resetWaiting' <= MaxTasks
TokensBounded == Tokens(board') <= MaxTokens

\* the operations of GameLogic, called in any order
Next ==
    \/ \E column \in Cols : MakeMove(column) /\ TasksBounded /\ TokensBounded
    \/ AIMoveStart
    \/ \E aiColumn \in -1 .. (NumCols - 1) :
          AIMoveResume(aiColumn) /\ TasksBounded /\ TokensBounded
    \/ ResetGame /\ TasksBounded
    \/ ResetResume
    \/ \E v \in BOOLEAN : SetVsAI(v)
    \/ \E p2 \in BOOLEAN : SetAIPlayer(p2) /\ TasksBounded

Spec == Init /\ [][Next]_vars

\* DeckDropGame.onKeyDown for a key of the top row: the press is handed to
\* makeMove whoever's turn it is, and when the move was accepted and the game
\* is over a reset is scheduled 5 seconds later
KeyDown(column) ==
    /\ ApplyMakeMove(column)
    /\ resetTimers' = IF last'.ret /\ gameOver' THEN resetTimers + 1 ELSE resetTimers
    /\ UNCHANGED <<vsAI, aiIsPlayerTwo, aiAwaiting, resetWaiting, renderCallback, strategy>>
    /\ UNCHANGED mctsVars

\* the reset timer of onKeyDown fires: resetGame runs up to its render delay
ResetTimerFires ==
    /\ resetTimers > 0
    /\ resetTimers' = resetTimers - 1
    /\ ApplyResetGame

DeckBounded ==
    /\ aiTimers' + aiAwaiting' + resetWaiting' + resetTimers' <= MaxTasks
    /\ Tokens(board') <= MaxTokens

\* The game as DeckDropGame drives it: keys of the top row are pressed at any
\* time, the controller button sets the AI's side, the timers fire, and the
\* suspended makeAIMove and resetGame invocations go on. resetGame is called
\* by the reset timer of onKeyDown only: DeckDropGame registers the onWin
\* handler and the render callback with GameLogic but no game-over callback,
\* so makeAIMove invokes nothing after a move of the AI that ends the game.
NextDeck ==
    \/ \E column \in Cols : KeyDown(column) /\ DeckBounded
    \/ AIMoveStart
    \/ \E aiColumn \in -1 .. (NumCols - 1) : AIMoveResume(aiColumn) /\ DeckBounded
    \/ ResetTimerFires
    \/ ResetResume
    \/ \E p2 \in BOOLEAN : SetAIPlayer(p2) /\ DeckBounded

SpecDeck == Init /\ [][NextDeck]_vars

\* every timer that has been set fires, and the strategy (the synchronous
\* tree search by default) answers every call
SpecDeckLive ==
    /\ SpecDeck
    /\ WF_vars(AIMoveStart)
    /\ WF_vars(\E aiColumn \in -1 .. (NumCols - 1) : AIMoveResume(aiColumn) /\ DeckBounded)
    /\ WF_vars(ResetTimerFires)
    /\ WF_vars(ResetResume)

\* the strategy kinds of AIOpponent
StrategyTypes == {"mcts", "qlearning", "groq"}

\* a strategy object as its constructor leaves it: every strategy class
\* initialises isPlayerTwo to true; the tree search takes the simulation
\* budget, the other kinds have none
NewStrategy(strategyType, mctsSimulations) ==
    [type |-> strategyType,
     isPlayerTwo |-> TRUE,
     simulationCount |-> IF strategyType = "mcts" THEN mctsSimulations ELSE 0]

\* a mutant of setStrategy that does not hand the side to the new strategy
setStrategyDefaultSide(aiP2, strategyType, mctsSimulations) ==
    NewStrategy(strategyType, mctsSimulations)

\* AIOpponent.setStrategy: the strategy is replaced by a new object, which is
\* then given the side stored in AIOpponent.isPlayerTwo
setStrategy(aiP2, strategyType, mctsSimulations) ==
    [NewStrategy(strategyType, mctsSimulations) EXCEPT !.isPlayerTwo = aiP2]

\* GameLogic.setAIStrategy(strategy, options)
SetAIStrategy(strategyType, mctsSimulations) ==
    /\ \E st \in {setStrategy(aiIsPlayerTwo, strategyType, mctsSimulations)} :
          /\ strategy' = st.type
          /\ isPlayerTwo' = st.isPlayerTwo
          /\ simulationCount' = st.simulationCount
    /\ last' = [NoCall EXCEPT !.op = "setAIStrategy"]
    /\ UNCHANGED <<board, currentPlayer, gameOver, vsAI, aiIsPlayerTwo, aiTimers, aiAwaiting,
                   resetWaiting, renderCallback, resetTimers, onWinCount>>
    /\ UNCHANGED <<pc, tree, simCount, node, state, playerJustMoved, bestMove>>

StrategyBounded ==
    /\ aiTimers' + aiAwaiting' + resetWaiting' + resetTimers' <= MaxTasks
    /\ Tokens(board') <= MaxStrategyTokens

\* The configuration of the AI during a game: the controller sets the AI's
\* side and the strategy is switched at any time, between the key presses
\* and the moves of the AI of the first turns.
NextStrategy ==
    \/ \E p2 \in BOOLEAN : SetAIPlayer(p2) /\ StrategyBounded
    \/ \E strategyType \in StrategyTypes, mctsSimulations \in 1 .. MaxSims :
          SetAIStrategy(strategyType, mctsSimulations)
    \/ \E column \in Cols : KeyDown(column) /\ StrategyBounded
    \/ AIMoveStart
    \/ \E aiColumn \in -1 .. (NumCols - 1) : AIMoveResume(aiColumn) /\ StrategyBounded

SpecStrategy == Init /\ [][NextStrategy]_vars

\* GameLogic on its own between two human players (vsAI switched off, no
\* render callback registered, so that resetGame does not suspend): every
\* position of the game is explored, up to the full board.
InitTwoPlayer ==
    /\ board = EmptyBoard
    /\ currentPlayer = PLAYER_ONE
    /\ gameOver = FALSE
    /\ vsAI = FALSE
    /\ aiIsPlayerTwo = TRUE
    /\ aiTimers = 0
    /\ aiAwaiting = 0
    /\ resetWaiting = 0
    /\ renderCallback = FALSE
    /\ resetTimers = 0
    /\ strategy = "mcts"
    /\ onWinCount = 0
    /\ last = NoCall
    /\ MCTSIdle

NextTwoPlayer ==
    \/ \E column \in Cols : MakeMove(column)
    \/ ResetGame

SpecTwoPlayer == InitTwoPlayer /\ [][NextTwoPlayer]_vars

\* GameLogic playing against the AI as PlayerOne, with nobody pressing a key:
\* the only calls from outside are resetGame calls, the rest is the AI's timers.
InitAIFirst ==
    /\ board = EmptyBoard
    /\ currentPlayer = PLAYER_ONE
    /\ gameOver = FALSE
    /\ vsAI = TRUE
    /\ aiIsPlayerTwo = FALSE
    /\ aiTimers = 0
    /\ aiAwaiting = 0
    /\ resetWaiting = 0
    /\ renderCallback = TRUE
    /\ resetTimers = 0
    /\ strategy = "mcts"
    /\ onWinCount = 0
    /\ last = NoCall
    /\ MCTSIdle

ResetTasksBounded == aiTimers' + aiAwaiting' + resetWaiting' <= MaxResetTasks

NextAIFirst ==
    \/ ResetGame /\ ResetTasksBounded
    \/ ResetResume
    \/ AIMoveStart
    \/ \E aiColumn \in -1 .. (NumCols - 1) : AIMoveResume(aiColumn) /\ ResetTasksBounded

SpecAIFirst == InitAIFirst /\ [][NextAIFirst]_vars

\* WinChecker on its own: checkWinner is a function of a board and a cell, so
\* its input is any 3x5 array of cell values, whether or not a game produces it.
\* The boards are drawn by writing any value to any cell.
PutCell(r, c, p) ==
    /\ board' = [board EXCEPT ![r][c] = p]
    /\ Tokens(board') <= MaxCells
    /\ UNCHANGED <<currentPlayer, gameOver, vsAI, aiIsPlayerTwo, aiTimers, aiAwaiting,
                   resetWaiting, renderCallback, onWinCount, last>>
    /\ UNCHANGED <<resetTimers, strategy, mctsVars>>

NextAnyBoard == \E r \in Rows, c \in Cols, p \in {EMPTY, PLAYER_ONE, PLAYER_TWO} : PutCell(r, c, p)

SpecAnyBoard == InitTwoPlayer /\ [][NextAnyBoard]_vars

(***************************************************************************)
(* MCTSOpponent and MCTSNode (mcts-opponent.ts)                            *)
(***************************************************************************)
\* a mutant of mctsMakeMove that puts the token on the entry cell of the column
mctsMakeMoveEntry(b, column, player) ==
    IF b[0][column] = EMPTY THEN [b EXCEPT ![0][column] = player] ELSE b

\* MCTSOpponent.makeMove: a copy of the board with the player's token on the
\* lowest Empty row of the column, the board itself if the column is full
mctsMakeMove(b, column, player) ==
    LET row == LowestEmptyRowFrom(b, column, NumRows - 1)
    IN  IF row # -1 THEN [b EXCEPT ![row][column] = player] ELSE b

\* a mutant of checkWin without the scan of the rising diagonals
checkWinNoRisingDiagonal(b, player) ==
    \/ \E row \in 0 .. 2 : \E col \in 0 .. 2 :
          b[row][col] = player /\ b[row][col + 1] = player /\ b[row][col + 2] = player
    \/ \E col \in 0 .. 4 :
          b[0][col] = player /\ b[1][col] = player /\ b[2][col] = player
    \/ \E col \in 0 .. 2 :
          b[0][col] = player /\ b[1][col + 1] = player /\ b[2][col + 2] = player

\* MCTSOpponent.checkWin / MCTSNode.checkWin: a scan of the whole board for
\* three tokens of the player in a row, a column or a diagonal
checkWin(b, player) ==
    \/ \E row \in 0 .. 2 : \E col \in 0 .. 2 :
          b[row][col] = player /\ b[row][col + 1] = player /\ b[row][col + 2] = player
    \/ \E col \in 0 .. 4 :
          b[0][col] = player /\ b[1][col] = player /\ b[2][col] = player
    \/ \E col \in 0 .. 2 :
          b[0][col] = player /\ b[1][col + 1] = player /\ b[2][col + 2] = player
    \/ \E col \in 0 .. 2 :
          b[2][col] = player /\ b[1][col + 1] = player /\ b[0][col + 2] = player

\* MCTSOpponent.isBoardFull / MCTSNode.isBoardFull: no Empty cell in row 0
mctsIsBoardFull(b) == \A col \in 0 .. 4 : b[0][col] # EMPTY

\* MCTSOpponent.isGameOver / MCTSNode.isTerminal
isGameOver(b) == checkWin(b, PLAYER_ONE) \/ checkWin(b, PLAYER_TWO) \/ mctsIsBoardFull(b)

\* MCTSOpponent.getWinner: 0 stands for a draw or an unfinished game
getWinner(b) ==
    IF checkWin(b, PLAYER_ONE) THEN PLAYER_ONE
    ELSE IF checkWin(b, PLAYER_TWO) THEN PLAYER_TWO
    ELSE 0

\* MCTSOpponent.isBoardEmpty
isBoardEmpty(b) == \A row \in 0 .. 2 : \A col \in 0 .. 4 : b[row][col] = EMPTY

SeqToSet(s) == {s[i] : i \in 1 .. Len(s)}

Includes(moves, col) == \E i \in 1 .. Len(moves) : moves[i] = col

\* the first column of the order that the moves include, -1 if there is none
RECURSIVE FirstPreferred(_, _, _)
FirstPreferred(order, moves, i) ==
    IF i > Len(order) THEN -1
    ELSE IF Includes(moves, order[i]) THEN order[i]
    ELSE FirstPreferred(order, moves, i + 1)

\* a mutant of preferenceOrder that prefers the columns from left to right
preferenceOrderLeftFirst == <<0, 1, 2, 3, 4>>

preferenceOrder == <<2, 1, 3, 0, 4>>

\* MCTSOpponent.centerPreference
centerPreference(moves) ==
    IF Len(moves) = 0 THEN -1
    ELSE IF FirstPreferred(preferenceOrder, moves, 1) # -1
         THEN FirstPreferred(preferenceOrder, moves, 1)
         ELSE moves[1]

\* the first of the moves, from index i on, after which the player has a line
RECURSIVE FirstWinningMove(_, _, _, _)
FirstWinningMove(b, player, moves, i) ==
    IF i > Len(moves) THEN -1
    ELSE IF checkWin(mctsMakeMove(b, moves[i], player), player) THEN moves[i]
    ELSE FirstWinningMove(b, player, moves, i + 1)

\* MCTSOpponent.findWinningMove
findWinningMove(b, player) == FirstWinningMove(b, player, getValidMoves(b), 1)

\* a mutant of getHeuristicMove that blocks before it wins
getHeuristicMoveBlockFirst(b, player, validMoves) ==
    IF FirstWinningMove(b, Other(player), validMoves, 1) # -1
    THEN {FirstWinningMove(b, Other(player), validMoves, 1)}
    ELSE IF FirstWinningMove(b, player, validMoves, 1) # -1
    THEN {FirstWinningMove(b, player, validMoves, 1)}
    ELSE {centerPreference(validMoves)} \cup SeqToSet(validMoves)

\* a mutant of getHeuristicMove that may return any column, full or not
getHeuristicMoveAnyColumn(b, player, validMoves) == Cols

\* MCTSOpponent.getHeuristicMove: the moves it can return; the last step
\* draws random numbers, which give the central move or any of the valid moves
getHeuristicMove(b, player, validMoves) ==
    IF FirstWinningMove(b, player, validMoves, 1) # -1
    THEN {FirstWinningMove(b, player, validMoves, 1)}
    ELSE IF FirstWinningMove(b, Other(player), validMoves, 1) # -1
    THEN {FirstWinningMove(b, Other(player), validMoves, 1)}
    ELSE {centerPreference(validMoves)} \cup SeqToSet(validMoves)

\* MCTSOpponent.findMove: the first column, scanned top to bottom, in which
\* the two boards differ
RECURSIVE FindMoveFrom(_, _, _)
FindMoveFrom(oldState, newState, col) ==
    IF col >= NumCols THEN -1
    ELSE IF \E row \in Rows : oldState[row][col] # newState[row][col] THEN col
    ELSE FindMoveFrom(oldState, newState, col + 1)

findMove(oldState, newState) == FindMoveFrom(oldState, newState, 0)

\* new MCTSNode(state, parent, playerJustMoved); wins is kept in halves
\* (the code adds 0.5 for a draw and 1.0 for a win), parent 0 stands for null
NewNode(st, parent, justMoved) ==
    [state |-> st, parent |-> parent, children |-> <<>>, visits |-> 0, wins |-> 0,
     untriedMoves |-> getValidMoves(st), playerJustMoved |-> justMoved]

\* MCTSNode.isTerminal and MCTSNode.isFullyExpanded of node n of tree t
isTerminal(t, n) == isGameOver(t[n].state)
isFullyExpanded(t, n) == Len(t[n].untriedMoves) = 0

\* explorationConstant * Math.sqrt(2 * Math.log(N) / v) with the constant 1.2
\* of MCTSOpponent, in millionths (rounded): Exploration[N][v] for N visits of
\* the parent and v visits of the node, both from 1 to 6
Exploration ==
    <<<<0, 0, 0, 0, 0, 0>>,
      <<1412892, 999066, 815734, 706446, 631865, 576811>>,
      <<1778765, 1257776, 1026970, 889382, 795488, 726178>>,
      <<1998131, 1412892, 1153622, 999066, 893591, 815734>>,
      <<2152947, 1522363, 1243005, 1076474, 962827, 878937>>,
      <<2271622, 1606279, 1311522, 1135811, 1015900, 927386>>>>

\* this.parent?.visits || 1
ParentVisits(t, c) ==
    IF t[c].parent # 0 /\ t[t[c].parent].visits # 0 THEN t[t[c].parent].visits ELSE 1

\* MCTSNode.getUCB1 of node c, in millionths, as a fraction <<numerator,
\* denominator>>; <<1, 0>> stands for Infinity (wins is kept in halves)
getUCB1(t, c) ==
    IF t[c].visits = 0 THEN <<1, 0>>
    ELSE <<t[c].wins * 1000000
             + 2 * t[c].visits * Exploration[ParentVisits(t, c)][t[c].visits],
           2 * t[c].visits>>

\* x > y for two values of getUCB1
UCBGreater(x, y) ==
    IF x[2] = 0 THEN y[2] # 0
    ELSE IF y[2] = 0 THEN FALSE
    ELSE x[1] * y[2] > y[1] * x[2]

\* the loop of selectChild over the children ch from index i on, with the
\* child selected so far (0 for null, with bestScore -Infinity)
RECURSIVE BestUCB(_, _, _, _)
BestUCB(t, ch, i, selectedChild) ==
    IF i > Len(ch) THEN selectedChild
    ELSE IF selectedChild = 0 \/ UCBGreater(getUCB1(t, ch[i]), getUCB1(t, selectedChild))
    THEN BestUCB(t, ch, i + 1, ch[i])
    ELSE BestUCB(t, ch, i + 1, selectedChild)

\* a mutant of selectChild that always takes the first child
selectChildFirst(t, n) ==
    IF Len(t[n].children) = 0 THEN {0} ELSE {t[n].children[1]}

\* MCTSNode.selectChild: the first child with the highest UCB1 value, 0 (null)
\* if the node has no children; the result is given as a set of one node
selectChild(t, n) == {BestUCB(t, t[n].children, 1, 0)}

\* the selection phase: the nodes the descent from n can end in (0 if selectChild returned null)
RECURSIVE Selection(_, _)
Selection(t, n) ==
    IF n = 0 THEN {0}
    ELSE IF ~isTerminal(t, n) /\ isFullyExpanded(t, n)
    THEN UNION {Selection(t, c) : c \in selectChild(t, n)}
    ELSE {n}

\* a mutant of addChild that leaves the move among the untried moves
addChildKeepUntried(t, n, move, nextState) ==
    LET nextPlayer == IF t[n].playerJustMoved = PLAYER_ONE THEN PLAYER_TWO ELSE PLAYER_ONE
        childNode == NewNode(nextState, n, nextPlayer)
    IN  Append([t EXCEPT ![n].children = Append(@, Len(t) + 1)], childNode)

\* MCTSNode.addChild on node n, after the move and the board it leads to
addChild(t, n, move, nextState) ==
    LET nextPlayer == IF t[n].playerJustMoved = PLAYER_ONE THEN PLAYER_TWO ELSE PLAYER_ONE
        childNode == NewNode(nextState, n, nextPlayer)
    IN  Append([t EXCEPT ![n].untriedMoves = SelectSeq(@, LAMBDA m : m # move),
                         ![n].children = Append(@, Len(t) + 1)],
               childNode)

\* the nodes from n up to the root
RECURSIVE PathToRoot(_, _)
PathToRoot(t, n) == IF n = 0 THEN {} ELSE {n} \cup PathToRoot(t, t[n].parent)

\* a mutant of Backpropagation that updates every node of the tree
BackpropagationAll(t, n, winner) ==
    [i \in 1 .. Len(t) |->
        [t[i] EXCEPT !.visits = @ + 1,
                     !.wins = @ + (IF winner = 0 THEN 1
                                   ELSE IF winner = t[i].playerJustMoved THEN 2
                                   ELSE 0)]]

\* the backpropagation phase from node n with the rollout's winner
Backpropagation(t, n, winner) ==
    [i \in 1 .. Len(t) |->
        IF i \in PathToRoot(t, n)
        THEN [t[i] EXCEPT !.visits = @ + 1,
                          !.wins = @ + (IF winner = 0 THEN 1
                                        ELSE IF winner = t[i].playerJustMoved THEN 2
                                        ELSE 0)]
        ELSE t[i]]

\* a mutant of Score with the sign of the score changed
ScoreNegated(t, c, sims) ==
    IF t[c].visits > 0
    THEN <<0 - (5 * sims * t[c].wins + t[c].visits * t[c].visits), 10 * sims * t[c].visits>>
    ELSE <<0, 1>>

\* score = winRate + 0.1 * visits / simCount of a root child, as a fraction
\* <<numerator, denominator>> (wins is in halves; winRate is 0 for no visits)
Score(t, c, sims) ==
    IF t[c].visits > 0
    THEN <<5 * sims * t[c].wins + t[c].visits * t[c].visits, 10 * sims * t[c].visits>>
    ELSE <<0, 1>>

\* the loop over rootNode.children: the child that first reaches the highest score
RECURSIVE BestChildFrom(_, _, _, _)
BestChildFrom(t, sims, i, best) ==
    IF i > Len(t[1].children) THEN best
    ELSE LET c == t[1].children[i]
         IN  IF best = 0 \/ Score(t, c, sims)[1] * Score(t, best, sims)[2]
                             > Score(t, best, sims)[1] * Score(t, c, sims)[2]
             THEN BestChildFrom(t, sims, i + 1, c)
             ELSE BestChildFrom(t, sims, i + 1, best)

\* a mutant of SelectedMove that does not fall back to the untried moves
SelectedMoveNoFallback(t, sims) ==
    IF BestChildFrom(t, sims, 1, 0) # 0
    THEN findMove(t[1].state, t[BestChildFrom(t, sims, 1, 0)].state)
    ELSE -1

\* the end of getBestMove: the move of the best root child, or the most
\* central untried move of the root if no child was scored
SelectedMove(t, sims) ==
    LET best == BestChildFrom(t, sims, 1, 0)
        move == IF best # 0 THEN findMove(t[1].state, t[best].state) ELSE -1
    IN  IF move = -1 /\ Len(t[1].untriedMoves) > 0
        THEN centerPreference(t[1].untriedMoves)
        ELSE move

gameVars == <<board, currentPlayer, gameOver, vsAI, aiIsPlayerTwo, aiTimers, aiAwaiting,
              resetWaiting, renderCallback, resetTimers, strategy, onWinCount>>

OpenCells(b) == Cardinality({rc \in Rows \X Cols : b[rc[1]][rc[2]] = EMPTY})

\* a mutant of PreCheck that blocks before it wins
PreCheckBlockFirst(b, p2) ==
    LET cur == IF p2 THEN PLAYER_TWO ELSE PLAYER_ONE
        prev == IF cur = PLAYER_ONE THEN PLAYER_TWO ELSE PLAYER_ONE
    IN  IF findWinningMove(b, prev) # -1 THEN findWinningMove(b, prev)
        ELSE IF findWinningMove(b, cur) # -1 THEN findWinningMove(b, cur)
        ELSE IF isBoardEmpty(b) THEN 2
        ELSE -1

\* a mutant of PreCheck that does not look for the opponent's winning move
PreCheckNoBlock(b, p2) ==
    LET cur == IF p2 THEN PLAYER_TWO ELSE PLAYER_ONE
    IN  IF findWinningMove(b, cur) # -1 THEN findWinningMove(b, cur)
        ELSE IF isBoardEmpty(b) THEN 2
        ELSE -1

\* a mutant of PreCheck whose opening move is the first column
PreCheckOpeningZero(b, p2) ==
    LET cur == IF p2 THEN PLAYER_TWO ELSE PLAYER_ONE
        prev == IF cur = PLAYER_ONE THEN PLAYER_TWO ELSE PLAYER_ONE
    IN  IF findWinningMove(b, cur) # -1 THEN findWinningMove(b, cur)
        ELSE IF findWinningMove(b, prev) # -1 THEN findWinningMove(b, prev)
        ELSE IF isBoardEmpty(b) THEN 0
        ELSE -1

\* the special cases at the head of getBestMove: the AI's winning move, the
\* opponent's winning move, the opening move; -1 if none applies
PreCheck(b, p2) ==
    LET cur == IF p2 THEN PLAYER_TWO ELSE PLAYER_ONE
        prev == IF cur = PLAYER_ONE THEN PLAYER_TWO ELSE PLAYER_ONE
    IN  IF findWinningMove(b, cur) # -1 THEN findWinningMove(b, cur)
        ELSE IF findWinningMove(b, prev) # -1 THEN findWinningMove(b, prev)
        ELSE IF isBoardEmpty(b) THEN 2
        ELSE -1

\* getBestMove(board) is called on the game's board, as makeAIMove does while
\* the game is in progress, by an opponent playing side p2 with a budget of
\* count simulations: the root is created and the special cases are tried
GetBestMoveStart(p2, count) ==
    /\ pc = "idle"
    /\ ~gameOver
    /\ isPlayerTwo' = p2
    /\ simulationCount' = count
    /\ tree' = <<NewNode(board, 0, IF p2 THEN PLAYER_ONE ELSE PLAYER_TWO)>>
    /\ simCount' = 0
    /\ \E pre \in {PreCheck(board, p2)} :
          /\ bestMove' = pre
          /\ pc' = IF pre # -1 THEN "done" ELSE "search"
    /\ last' = [NoCall EXCEPT !.op = "getBestMove"]
    /\ UNCHANGED <<node, state, playerJustMoved>>
    /\ UNCHANGED gameVars

\* one pass of the search loop up to the rollout: the loop condition holds
\* (budget left, time cap not reached), then selection and expansion
Iterate ==
    /\ pc = "search"
    /\ simCount < simulationCount
    /\ simCount' = simCount + 1
    /\ \E sel \in Selection(tree, 1) :
          IF sel = 0
          THEN /\ pc' = "threw"
               /\ UNCHANGED <<tree, node, state, playerJustMoved>>
          ELSE /\ pc' = "rollout"
               /\ IF ~isTerminal(tree, sel) /\ ~isFullyExpanded(tree, sel)
                  THEN \E i \in 1 .. Len(tree[sel].untriedMoves) :
                          LET move == tree[sel].untriedMoves[i]
                              nextState == mctsMakeMove(tree[sel].state, move,
                                               Other(tree[sel].playerJustMoved))
                          IN  /\ tree' = addChild(tree, sel, move, nextState)
                              /\ node' = Len(tree) + 1
                  ELSE /\ tree' = tree
                       /\ node' = sel
               /\ state' = tree'[node'].state
               /\ playerJustMoved' = tree'[node'].playerJustMoved
    /\ UNCHANGED <<isPlayerTwo, simulationCount, bestMove, last>>
    /\ UNCHANGED gameVars

\* one pass of the rollout loop: the next player places a token
RolloutStep ==
    /\ pc = "rollout"
    /\ ~isGameOver(state)
    /\ Len(getValidMoves(state)) # 0
    /\ \E move \in getHeuristicMove(state, Other(playerJustMoved), getValidMoves(state)) :
          /\ playerJustMoved' = Other(playerJustMoved)
          /\ state' = mctsMakeMove(state, move, Other(playerJustMoved))
    /\ UNCHANGED <<isPlayerTwo, simulationCount, pc, tree, simCount, node, bestMove, last>>
    /\ UNCHANGED gameVars

\* the rollout has ended: the result is propagated from node up to the root
Backpropagate ==
    /\ pc = "rollout"
    /\ isGameOver(state) \/ Len(getValidMoves(state)) = 0
    /\ tree' = Backpropagation(tree, node, getWinner(state))
    /\ pc' = "search"
    /\ UNCHANGED <<isPlayerTwo, simulationCount, simCount, node, state, playerJustMoved,
                   bestMove, last>>
    /\ UNCHANGED gameVars

\* the search loop is left, because the budget is used up or, at any pass,
\* because the time cap is reached: the move is selected and returned
Finish ==
    /\ pc = "search"
    /\ bestMove' = SelectedMove(tree, simCount)
    /\ pc' = "done"
    /\ UNCHANGED <<isPlayerTwo, simulationCount, tree, simCount, node, state,
                   playerJustMoved, last>>
    /\ UNCHANGED gameVars

\* a search is started only on a board with at most MaxOpenCells Empty cells
SearchBounded == pc' = "search" => OpenCells(board) <= MaxOpenCells

\* The tree-search opponent on the boards of the game: the game is played by
\* key presses (getBestMove runs synchronously, so nothing else happens
\* while a call is running) and getBestMove is called on any board in
\* progress, for either side, with no budget or a budget of MaxSims (the time
\* cap ends the search after any smaller number of passes).
NextMCTS ==
    \/ \E column \in Cols : MakeMove(column) /\ pc = "idle"
    \/ \E p2 \in BOOLEAN, count \in {0, MaxSims} : GetBestMoveStart(p2, count) /\ SearchBounded
    \/ Iterate
    \/ RolloutStep
    \/ Backpropagate
    \/ Finish

SpecMCTS == InitTwoPlayer /\ [][NextMCTS]_vars

\* the tokens of a column from the floor up
Stacks == UNION {[1 .. h -> Players] : h \in 0 .. NumRows}

\* the board whose columns 0 .. 4 hold the stacks st[1] .. st[5]
BoardOfStacks(st) ==
    [r \in Rows |-> [c \in Cols |->
        IF Len(st[c + 1]) >= NumRows - r THEN st[c + 1][NumRows - r] ELSE EMPTY]]

PlayerTokens(b, p) == Cardinality({rc \in Rows \X Cols : b[rc[1]][rc[2]] = p})

\* board b can still become a board of a game in progress with at most
\* MaxSearchOpenCells Empty cells when the columns from column next on, now
\* empty, are filled: it has no line of three, and the columns placed so far
\* leave few enough cells Empty
Promising(b, next) ==
    /\ ~checkWin(b, PLAYER_ONE) /\ ~checkWin(b, PLAYER_TWO)
    /\ OpenCells(b) - NumRows * (NumCols - next) <= MaxSearchOpenCells

\* board b is reached from the empty board by accepted makeMove calls, which
\* place tokens of PlayerOne and PlayerTwo in turn: the last token placed is
\* the top token of a column, and the board without it is reached as well
RECURSIVE ReachedByMoves(_)
ReachedByMoves(b) ==
    \/ isBoardEmpty(b)
    \/ /\ PlayerTokens(b, PLAYER_ONE) - PlayerTokens(b, PLAYER_TWO) \in {0, 1}
       /\ \E c \in Cols : \E r \in Rows :
             /\ b[r][c] = (IF PlayerTokens(b, PLAYER_ONE) = PlayerTokens(b, PLAYER_TWO)
                           THEN PLAYER_TWO ELSE PLAYER_ONE)
             /\ IF r = 0 THEN TRUE ELSE b[r - 1][c] = EMPTY
             /\ ReachedByMoves([b EXCEPT ![r][c] = EMPTY])

\* a board of a game in progress with at most MaxSearchOpenCells Empty cells:
\* no line of three, not full, and reached by moves made in turn
SearchBoard(b) ==
    /\ OpenCells(b) <= MaxSearchOpenCells
    /\ ~isGameOver(b)
    /\ ReachedByMoves(b)

\* a two-player game that has arrived at one of these boards, which are put
\* together column by column
InitSearch ==
    /\ \E s0, s1, s2 \in Stacks :
          /\ Promising(BoardOfStacks(<<s0, s1, s2, <<>>, <<>>>>), 3)
          /\ \E s3 \in Stacks :
                /\ Promising(BoardOfStacks(<<s0, s1, s2, s3, <<>>>>), 4)
                /\ \E s4 \in Stacks :
                      board \in {b \in {BoardOfStacks(<<s0, s1, s2, s3, s4>>)} :
                                    SearchBoard(b)}
    /\ currentPlayer = IF PlayerTokens(board, PLAYER_ONE) = PlayerTokens(board, PLAYER_TWO)
                       THEN PLAYER_ONE ELSE PLAYER_TWO
    /\ gameOver = FALSE
    /\ vsAI = FALSE
    /\ aiIsPlayerTwo = TRUE
    /\ aiTimers = 0
    /\ aiAwaiting = 0
    /\ resetWaiting = 0
    /\ renderCallback = FALSE
    /\ resetTimers = 0
    /\ strategy = "mcts"
    /\ onWinCount = 0
    /\ last = NoCall
    /\ MCTSIdle

\* The tree-search opponent late in the game: getBestMove is called once on
\* the board, for either side, with no budget or a budget of MaxSearchSims
\* (the time cap ends the search after any smaller number of passes).
NextSearch ==
    \/ \E p2 \in BOOLEAN, count \in {0, MaxSearchSims} : GetBestMoveStart(p2, count)
    \/ Iterate
    \/ RolloutStep
    \/ Backpropagate
    \/ Finish

SpecSearch == InitSearch /\ [][NextSearch]_vars

\* getBestMove runs synchronously to its end: once called, the steps of the
\* search follow each other without waiting for anything
SpecSearchLive ==
    SpecSearch /\ WF_vars(Iterate \/ RolloutStep \/ Backpropagate \/ Finish)

(***************************************************************************)
(* The strategies behind AIOpponent: QLearningStrategy, GroqOpponent       *)
(***************************************************************************)
\* QLearningStrategy.boardToState: the cells of the board row by row (the
\* string joins one digit per cell), with the two players exchanged when the
\* AI is player 1
boardToState(b, p2) ==
    [i \in 1 .. (NumRows * NumCols) |->
        LET cell == b[(i - 1) \div NumCols][(i - 1) % NumCols]
        IN  IF p2 \/ cell = EMPTY THEN cell ELSE Other(cell)]

\* QLearningStrategy.getValidActions
getValidActions(b) == ValidMovesFrom(b, 0)

\* action.toString() for a column
toString(action) ==
    CASE action = 0 -> "0" [] action = 1 -> "1" [] action = 2 -> "2"
      [] action = 3 -> "3" [] action = 4 -> "4"

\* the keys of a row of the Q-table
ActionKeys == {toString(action) : action \in Cols}

\* the rows of the model's tables: all actions have the same value, 0 or
\* -1, or one of them has the value 1 and the others 0; 0 also stands for a
\* missing action (`qTable[state][actionStr] || 0` reads a missing action as 0)
QRows ==
    {[k \in ActionKeys |-> v] : v \in {-1, 0}}
    \cup {[k \in ActionKeys |-> IF k = one THEN 1 ELSE 0] : one \in ActionKeys}

\* a mutant of qPreferenceOrder that prefers the columns from left to right
qPreferenceOrderAscending == <<0, 1, 2, 3, 4>>

\* the preferenceOrder of QLearningStrategy.getBestMove
qPreferenceOrder == <<2, 1, 3, 0, 4>>

\* the column preference heuristic of QLearningStrategy.getBestMove
qPreference(validActions) ==
    LET col == FirstPreferred(qPreferenceOrder, validActions, 1)
    IN  IF col # -1 THEN col ELSE validActions[1]

\* the loop over validActions from index i on: best is <<bestAction>> with
\* its value, or <<>> while bestValue is -Infinity
RECURSIVE BestAction(_, _, _, _)
BestAction(row, validActions, i, best) ==
    IF i > Len(validActions) THEN best
    ELSE LET qValue == row[toString(validActions[i])]
         IN  IF best = <<>> \/ qValue > best[2]
             THEN BestAction(row, validActions, i + 1, <<validActions[i], qValue>>)
             ELSE BestAction(row, validActions, i + 1, best)

\* QLearningStrategy.getBestMove(board) of a strategy playing side p2 with
\* the table qTable, a function from states to rows
QLearningGetBestMove(b, p2, qTable) ==
    LET qState == boardToState(b, p2)
        validActions == getValidActions(b)
    IN  IF Len(validActions) = 0 THEN -1
        ELSE IF qState \notin DOMAIN qTable THEN qPreference(validActions)
        ELSE LET best == BestAction(qTable[qState], validActions, 1, <<>>)
             IN  IF best = <<>> THEN qPreference(validActions) ELSE best[1]

\* the preferenceOrder of GroqOpponent.getFallbackMove
groqPreferenceOrder == <<2, 1, 3, 0, 4>>

\* GroqOpponent.getFallbackMove
getFallbackMove(b) ==
    LET validMoves == ValidMovesFrom(b, 0)
        col == FirstPreferred(groqPreferenceOrder, validMoves, 1)
    IN  IF Len(validMoves) = 0 THEN -1
        ELSE IF col # -1 THEN col
        ELSE validMoves[1]

\* parseInt of one of the characters the pattern [0-4] matches
ParseDigit(ch) ==
    CASE ch = "0" -> 0 [] ch = "1" -> 1 [] ch = "2" -> 2
      [] ch = "3" -> 3 [] ch = "4" -> 4

\* response.match(/[0-4]/): the first character of the response, a sequence
\* of characters, that is one of 0..4; <<>> stands for null
RECURSIVE Match(_, _)
Match(response, i) ==
    IF i > Len(response) THEN <<>>
    ELSE IF response[i] \in {"0", "1", "2", "3", "4"} THEN <<response[i]>>
    ELSE Match(response, i + 1)

\* a mutant of parseMove that does not look at the column's entry cell
parseMoveNoEntryCheck(response, b) ==
    LET match == Match(response, 1)
    IN  IF match # <<>> THEN ParseDigit(match[1]) ELSE getFallbackMove(b)

\* GroqOpponent.parseMove
parseMove(response, b) ==
    LET match == Match(response, 1)
        column == ParseDigit(match[1])
    IN  IF match # <<>> /\ column >= 0 /\ column <= 4 /\ b[0][column] = EMPTY
        THEN column
        ELSE getFallbackMove(b)

\* the outcomes of `await this.groq.chat.completions.create(...)`: the call
\* throws (also when the client rejects the request or the completion has no
\* choices), or the completion's trimmed content is a response; a completion without
\* content gives the empty response
Throws == [kind |-> "throws", content |-> <<>>]

Answers(response) == [kind |-> "answers", content |-> response]

\* what a call resolves to, and what a call that throws looks like to its caller
Resolved(value) == [settled |-> "resolved", value |-> value]

Rejects == [settled |-> "rejected", value |-> -1]

\* GroqOpponent.getBestMove(board) with the client initialised or not and
\* the outcome of the remote call: everything after the isInitialized test
\* is inside try/catch, and the catch returns the fallback move
GroqGetBestMove(b, initialized, remote) ==
    IF ~initialized THEN Resolved(getFallbackMove(b))
    ELSE IF remote.kind = "throws" THEN Resolved(getFallbackMove(b))
    ELSE Resolved(parseMove(remote.content, b))

\* AIOpponent.getBestMove: `await Promise.resolve(this.strategy.getBestMove(board))`
\* settles as the strategy's call does; answer is the strategy's outcome
AIOpponentGetBestMove(answer) == answer

\* the characters of the responses of the model, and the responses: the
\* empty one, every single character, and the pairs of characters that
\* begin with a column's digit, another digit, a sign or a letter
Chars == {"0", "1", "2", "3", "4", "5", "-", "x"}

Responses ==
    {<<>>} \cup {<<a>> : a \in Chars}
    \cup {<<a, b>> : a \in {"1", "5", "-", "x"}, b \in Chars}

\* the outcomes of the remote call in the model
Remotes == {Throws} \cup {Answers(response) : response \in Responses}

\* the table whose only key is key, with the row
OneKeyTable(key, row) == key :> row

\* GameLogic against the remote advisor as PlayerTwo: keys are pressed, the
\* makeAIMove timers fire, and a suspended makeAIMove goes on when the
\* remote call of GroqOpponent.getBestMove has answered or thrown, with the
\* column getBestMove then returns. The call passes no timeout and is not
\* raced against a timer: whether a request without response settles is left
\* to the client library (groq-sdk), which is not part of the sources. The
\* bounds restrict the key presses only: no move of the AI is held back by them.
InitRemote ==
    /\ board = EmptyBoard
    /\ currentPlayer = PLAYER_ONE
    /\ gameOver = FALSE
    /\ vsAI = TRUE
    /\ aiIsPlayerTwo = TRUE
    /\ aiTimers = 0
    /\ aiAwaiting = 0
    /\ resetWaiting = 0
    /\ renderCallback = FALSE
    /\ resetTimers = 0
    /\ strategy = "mcts"
    /\ onWinCount = 0
    /\ last = NoCall
    /\ MCTSIdle

\* the remote call settles and makeAIMove applies what getBestMove returns
RemoteSettles ==
    \E aiColumn \in {AIOpponentGetBestMove(GroqGetBestMove(board, TRUE, remote)).value :
                        remote \in Remotes} :
        AIMoveResume(aiColumn)

NextRemote ==
    \/ \E column \in Cols : MakeMove(column) /\ TasksBounded /\ TokensBounded
    \/ AIMoveStart
    \/ RemoteSettles

SpecRemote == InitRemote /\ [][NextRemote]_vars

\* a timer that has been set fires; the remote call may stay pending for ever
SpecRemoteLive == SpecRemote /\ WF_vars(AIMoveStart)

\* a timer that has been set fires, and the client library settles every
\* call: with an answer, or by throwing when no response arrives
SpecRemoteSettling == SpecRemoteLive /\ WF_vars(RemoteSettles)

(***************************************************************************)
(* Properties                                                              *)
(***************************************************************************)
Cells == Rows \X Cols

At(b, cell) == b[cell[1]][cell[2]]

\* the lines of three adjacent collinear cells of the 3x5 board
Lines ==
    {{<<r, c>>, <<r, c + 1>>, <<r, c + 2>>} : r \in Rows, c \in 0 .. (NumCols - 3)}
    \cup {{<<0, c>>, <<1, c>>, <<2, c>>} : c \in Cols}
    \cup {{<<0, c>>, <<1, c + 1>>, <<2, c + 2>>} : c \in 0 .. (NumCols - 3)}
    \cup {{<<2, c>>, <<1, c + 1>>, <<0, c + 2>>} : c \in 0 .. (NumCols - 3)}

\* the lines of player p on board b that contain the cell
LinesThrough(b, p, cell) == {L \in Lines : cell \in L /\ \A x \in L : At(b, x) = p}

HasLine(b, p) == \E L \in Lines : \A x \in L : At(b, x) = p

ColumnFull(b, c) == \A r \in Rows : b[r][c] # EMPTY

BoardFull(b) == \A cell \in Cells : At(b, cell) # EMPTY

Count(b, p) == Cardinality({cell \in Cells : At(b, cell) = p})

\* the cell of the token placed by the last makeMove call, if it placed one
Placed == last.op = "makeMove" /\ last.row # -1
PlacedCell == <<last.row, last.col>>

\* C1: in every reachable state every column is filled contiguously from the
\* floor (row 2) upward: no cell is occupied above an Empty cell.
C1_NoFloatingTokens ==
    \A c \in Cols : \A r \in 0 .. (NumRows - 2) :
        board[r][c] # EMPTY => board[r + 1][c] # EMPTY

\* a full column next to a partly filled one, after a move
C1_Witness ==
    /\ Placed
    /\ \E c \in Cols : ColumnFull(board, c)
    /\ \E c \in Cols : board[2][c] # EMPTY /\ board[1][c] = EMPTY

\* C2: a makeMove call made when the game is over, or on a full column,
\* returns false, changes neither the board nor the player nor the flag,
\* invokes no onWin and schedules no AI move.
C2_RejectedMoveNoEffect ==
    [][(last'.op = "makeMove" /\ (gameOver \/ ColumnFull(board, last'.col)))
        => /\ last'.ret = FALSE
           /\ board' = board
           /\ currentPlayer' = currentPlayer
           /\ gameOver' = gameOver
           /\ last'.onWin = <<>>
           /\ onWinCount' = onWinCount
           /\ last'.scheduled = FALSE
           /\ aiTimers' = aiTimers
           /\ aiAwaiting' <= aiAwaiting]_vars

\* a move on a full column was rejected while the game is in progress against the AI
C2_Witness ==
    /\ last.op = "makeMove" /\ last.ret = FALSE
    /\ ~gameOver /\ vsAI
    /\ ColumnFull(board, last.col)

\* C3: in a non-terminal state a makeMove call on a non-full column returns
\* true and changes exactly the lowest Empty cell of the column, from Empty to
\* the current player; and no operation but resetGame changes an occupied cell.
C3_ExactlyOneCell ==
    [][/\ (last'.op = "makeMove" /\ ~gameOver /\ ~ColumnFull(board, last'.col))
            => /\ last'.ret = TRUE
               /\ \E r \in Rows :
                     /\ board[r][last'.col] = EMPTY
                     /\ \A r2 \in Rows : r2 > r => board[r2][last'.col] # EMPTY
                     /\ board' = [board EXCEPT ![r][last'.col] = currentPlayer]
       /\ (last'.op # "resetGame")
            => \/ board' = board
               \/ \A cell \in Cells : At(board, cell) # EMPTY => At(board', cell) = At(board, cell)
      ]_vars

\* a token was stacked on top of another one
C3_Witness ==
    /\ Placed /\ last.ret = TRUE
    /\ last.row < NumRows - 1
    /\ board[last.row + 1][last.col] # EMPTY

\* C4: once the game is over, every operation but resetGame leaves the board,
\* the player and the flag as they are, and resetGame yields the empty board
\* with PlayerOne to move and the flag false.
C4_TerminalAbsorbing ==
    [][gameOver =>
          IF last'.op = "resetGame"
          THEN board' = EmptyBoard /\ currentPlayer' = PLAYER_ONE /\ gameOver' = FALSE
          ELSE board' = board /\ currentPlayer' = currentPlayer /\ gameOver' = TRUE]_vars

\* the game is over and a move has been rejected while an AI move is still pending
C4_Witness ==
    /\ gameOver
    /\ last.op = "makeMove" /\ last.ret = FALSE
    /\ aiTimers + aiAwaiting > 0

\* C5: a makeMove call that places a token completing a line of three of the
\* mover returns true, sets the flag, keeps the mover as current player,
\* schedules no AI move and hands the mover to onWin.
C5_WinEndsGame ==
    [][(/\ last'.op = "makeMove" /\ last'.row # -1
        /\ LinesThrough(board', currentPlayer, <<last'.row, last'.col>>) # {})
        => /\ last'.ret = TRUE
           /\ gameOver' = TRUE
           /\ currentPlayer' = currentPlayer
           /\ last'.scheduled = FALSE
           /\ aiTimers' = aiTimers
           /\ last'.onWin # <<>>
           /\ \A i \in 1 .. Len(last'.onWin) : last'.onWin[i].player = currentPlayer]_vars

\* the human (PlayerOne) has won against the AI, whose turn it would have been
C5_Witness ==
    /\ Placed /\ last.ret = TRUE
    /\ vsAI /\ aiIsPlayerTwo
    /\ At(board, PlacedCell) = PLAYER_ONE
    /\ LinesThrough(board, PLAYER_ONE, PlacedCell) # {}

\* C6: a makeMove call invokes onWin exactly once if the placed token
\* completes a line (also two lines at once) and not at all otherwise.
C6_OnWinAtMostOnce ==
    last.op = "makeMove" =>
        Len(last.onWin) =
            IF last.row # -1 /\ LinesThrough(board, At(board, PlacedCell), PlacedCell) # {}
            THEN 1 ELSE 0

\* the placed token completed two lines of different directions at once
C6_Witness ==
    /\ Placed
    /\ \E L1, L2 \in LinesThrough(board, At(board, PlacedCell), PlacedCell) :
          L1 \cap L2 = {PlacedCell}
    /\ Len(last.onWin) = 1

\* C7: a move that fills the last Empty cell and completes a line is a win:
\* onWin is invoked with a line of the mover through the placed cell.
C7_WinningFinalMove ==
    (/\ Placed /\ BoardFull(board)
     /\ LinesThrough(board, At(board, PlacedCell), PlacedCell) # {})
    => /\ gameOver
       /\ Len(last.onWin) = 1
       /\ last.onWin[1].player = At(board, PlacedCell)
       /\ SeqToSet(last.onWin[1].positions)
            \in LinesThrough(board, At(board, PlacedCell), PlacedCell)

\* the board is full and the last token completed a line
C7_Witness ==
    /\ Placed /\ BoardFull(board)
    /\ LinesThrough(board, At(board, PlacedCell), PlacedCell) # {}
    /\ last.onWin # <<>>

\* C8: a move that fills the last Empty cell without any line of three on the
\* board returns true and ends the game as a draw: onWin is not invoked.
C8_DrawOnFullBoard ==
    (/\ Placed /\ BoardFull(board)
     /\ ~HasLine(board, PLAYER_ONE) /\ ~HasLine(board, PLAYER_TWO))
    => /\ last.ret = TRUE
       /\ gameOver
       /\ last.onWin = <<>>
       /\ onWinCount = 0

\* the game has ended in a draw
C8_Witness ==
    /\ Placed /\ BoardFull(board) /\ gameOver
    /\ ~HasLine(board, PLAYER_ONE) /\ ~HasLine(board, PLAYER_TWO)

\* C9: while the game is in progress PlayerOne has as many tokens as PlayerTwo
\* when PlayerOne is to move and one more when PlayerTwo is to move; an
\* accepted move that does not end the game flips the current player.
C9_StrictAlternation ==
    /\ [](~gameOver =>
            Count(board, PLAYER_ONE) - Count(board, PLAYER_TWO)
                = IF currentPlayer = PLAYER_ONE THEN 0 ELSE 1)
    /\ [][(last'.op = "makeMove" /\ last'.ret = TRUE /\ ~gameOver')
            => /\ currentPlayer' \in Players
               /\ currentPlayer' # currentPlayer]_vars

\* PlayerTwo is to move for the third time
C9_Witness ==
    /\ ~gameOver /\ currentPlayer = PLAYER_TWO
    /\ Count(board, PLAYER_ONE) = 3 /\ Count(board, PLAYER_TWO) = 2
    /\ Placed

\* C10: while the game is in progress makeMove(c) is accepted iff board[0][c]
\* is Empty: the accepted columns are the ones getValidMoves lists.
C10_AcceptedIffEntryEmpty ==
    /\ [](~gameOver =>
            {c \in Cols : makeMove(board, currentPlayer, gameOver, vsAI, aiIsPlayerTwo, c).ret}
                = SeqToSet(getValidMoves(board)))
    /\ [][(last'.op = "makeMove" /\ ~gameOver)
            => (last'.ret = TRUE <=> board[0][last'.col] = EMPTY)]_vars

\* in a game in progress a column with two tokens has just received its third
\* and another column is already closed
C10_Witness ==
    /\ ~gameOver /\ Placed /\ last.row = 0
    /\ Cardinality({c \in Cols : board[0][c] # EMPTY}) >= 2
    /\ Len(getValidMoves(board)) = NumCols - Cardinality({c \in Cols : board[0][c] # EMPTY})

\* C11: calling resetGame twice yields the same game as calling it once: each
\* call leaves the empty board with PlayerOne to move and the flag false, and
\* with the AI as PlayerOne and no key pressed the resets lead to the AI's
\* opening token only, as a single reset does: never to a second token.
C11_ResetIdempotent ==
    /\ last.op = "resetGame" => board = EmptyBoard /\ currentPlayer = PLAYER_ONE /\ ~gameOver
    /\ Tokens(board) <= 1

\* C12: on every board reached by an accepted move, checkWinner anchored at
\* the placed cell reports a win iff the cell lies on a line of three of the
\* mover, and then reports exactly one such line: three adjacent collinear
\* cells of the mover that include the placed cell.
C12_CheckWinnerCorrect ==
    Placed =>
        LET win == checkWinner(board, last.row, last.col)
            mover == At(board, PlacedCell)
        IN  /\ (win # <<>>) <=> (LinesThrough(board, mover, PlacedCell) # {})
            /\ win # <<>> =>
                  /\ Len(win) = 1
                  /\ Len(win[1].positions) = 3
                  /\ win[1].player = mover
                  /\ SeqToSet(win[1].positions) \in LinesThrough(board, mover, PlacedCell)

\* the third token stacked in one column is reported as a vertical win
C12_Witness ==
    /\ Placed /\ last.row = 0
    /\ \A r \in Rows : board[r][last.col] = At(board, PlacedCell)
    /\ LET win == checkWinner(board, last.row, last.col)
       IN  win # <<>> /\ SeqToSet(win[1].positions) = {<<r, last.col>> : r \in Rows}

\* the board with all PlayerOne and PlayerTwo cells exchanged
SwapPlayers(b) ==
    [r \in Rows |-> [c \in Cols |->
        IF b[r][c] = PLAYER_ONE THEN PLAYER_TWO
        ELSE IF b[r][c] = PLAYER_TWO THEN PLAYER_ONE ELSE b[r][c]]]

\* the coordinates reported by a checkWinner call
Reported(win) == [i \in 1 .. Len(win) |-> win[i].positions]

\* C13: for every board and every cell, checkWinner reports a win on the
\* board iff it reports one on the board with the players exchanged, and
\* then with the same coordinates.
C13_SwapSymmetric ==
    \A cell \in Cells :
        LET win == checkWinner(board, cell[1], cell[2])
            swapped == checkWinner(SwapPlayers(board), cell[1], cell[2])
        IN  /\ (win # <<>>) <=> (swapped # <<>>)
            /\ Reported(win) = Reported(swapped)

\* a board with tokens of both players on which PlayerTwo has a diagonal
C13_Witness ==
    /\ \E cell \in Cells : At(board, cell) = PLAYER_ONE
    /\ \E cell \in Cells :
          /\ At(board, cell) = PLAYER_TWO
          /\ checkDiagonalUpWin(board, PLAYER_TWO) # <<>>
          /\ checkWinner(board, cell[1], cell[2]) # <<>>
          /\ checkWinner(SwapPlayers(board), cell[1], cell[2])[1].player = PLAYER_ONE

\* the cell a token dropped into column c of board b lands on (c is not full)
LandingCell(b, c) ==
    <<CHOOSE r \in Rows : b[r][c] = EMPTY /\ \A r2 \in Rows : r2 > r => b[r2][c] # EMPTY, c>>

\* the non-full columns of b in which a token of player p completes a line of three
WinningColumns(b, p) ==
    {c \in Cols : /\ b[0][c] = EMPTY
                  /\ LinesThrough([b EXCEPT ![LandingCell(b, c)[1]][c] = p],
                                  p, LandingCell(b, c)) # {}}

AISide == IF isPlayerTwo THEN PLAYER_TWO ELSE PLAYER_ONE

\* C14: whenever the board has a non-full column, getBestMove returns (it
\* does not throw) a column in [0,5) whose entry cell is Empty, whatever the
\* budget, the random choices and the moment of the time cutoff; it returns
\* -1 only when every column is full.
C14_ReturnsLegalColumn ==
    /\ pc # "threw"
    /\ pc = "done" =>
          IF \E c \in Cols : board[0][c] = EMPTY
          THEN bestMove \in Cols /\ board[0][bestMove] = EMPTY
          ELSE bestMove = -1

\* a search of two iterations has returned the column of one of two root children
C14_Witness ==
    /\ pc = "done" /\ simCount = 2
    /\ Len(tree[1].children) = 2
    /\ bestMove \in Cols /\ board[0][bestMove] = EMPTY

\* C15: when the AI's side has a column that completes a line of three,
\* getBestMove returns such a column, whatever the budget and before any
\* search iteration, also when the opponent has a winning column too.
C15_TakesWinningMove ==
    (pc = "done" /\ WinningColumns(board, AISide) # {})
    => /\ bestMove \in WinningColumns(board, AISide)
       /\ simCount = 0
       /\ Len(tree) = 1

\* both sides have a winning column, in different columns, and the AI with a
\* budget of zero has taken its own
C15_Witness ==
    /\ pc = "done" /\ simulationCount = 0
    /\ WinningColumns(board, AISide) # {}
    /\ WinningColumns(board, Other(AISide)) # {}
    /\ WinningColumns(board, AISide) \cap WinningColumns(board, Other(AISide)) = {}
    /\ bestMove \in WinningColumns(board, AISide)

\* C16: when the AI's side has no winning column and the opponent has one,
\* getBestMove returns a column in which the opponent would win, whatever
\* the budget.
C16_BlocksOpponent ==
    (/\ pc = "done"
     /\ WinningColumns(board, AISide) = {}
     /\ WinningColumns(board, Other(AISide)) # {})
    => /\ bestMove \in WinningColumns(board, Other(AISide))
       /\ simCount = 0

\* the AI has blocked the opponent's only winning column, which is not the central one
C16_Witness ==
    /\ pc = "done"
    /\ WinningColumns(board, AISide) = {}
    /\ WinningColumns(board, Other(AISide)) = {bestMove}
    /\ bestMove # 2

\* C17: on the empty board getBestMove returns column 2 without running a
\* search iteration, whichever side the AI plays.
C17_OpeningBook ==
    (pc = "done" /\ board = EmptyBoard)
    => /\ bestMove = 2
       /\ simCount = 0
       /\ Len(tree) = 1 /\ Len(tree[1].children) = 0

\* the AI as PlayerOne with a positive budget has opened in column 2
C17_Witness ==
    /\ pc = "done" /\ board = EmptyBoard
    /\ ~isPlayerTwo /\ simulationCount > 0
    /\ bestMove = 2

\* the order of preference the fallback is to follow
CentralOrder == <<2, 1, 3, 0, 4>>

\* the first column of CentralOrder whose entry cell is Empty on b, -1 if every column is full
PreferredOpen(b) ==
    LET open == {i \in 1 .. Len(CentralOrder) : b[0][CentralOrder[i]] = EMPTY}
    IN  IF open = {} THEN -1
        ELSE CentralOrder[CHOOSE i \in open : \A j \in open : i <= j]

\* the call resolved to a column of b whose entry cell is Empty
Legal(b, answer) ==
    /\ answer.settled = "resolved"
    /\ answer.value \in Cols
    /\ b[0][answer.value] = EMPTY

\* what the tree search's getBestMove call has given when it has ended
MCTSAnswer == IF pc = "threw" THEN Rejects ELSE Resolved(bestMove)

\* C18: on every board of a game in progress (which has a non-full column;
\* the board at the start or after an accepted move, a rejected move leaves
\* the board it found)
\* AIOpponent.getBestMove resolves to a column whose entry cell is Empty and
\* never rejects, whichever strategy answers: the tree search once it has
\* ended, the Q-table lookup for either side with a table without the board's
\* key or with it and any row, the remote advisor whether or not its client
\* is initialised and whether the remote call throws or answers any response.
C18_StrategiesLegal ==
    ~gameOver =>
        /\ pc # "threw"
        /\ pc = "done" => Legal(board, AIOpponentGetBestMove(MCTSAnswer))
        /\ (pc = "idle" /\ (last.op = "makeMove" => last.ret)) =>
            /\ \A p2 \in BOOLEAN :
                  Legal(board, AIOpponentGetBestMove(
                                   Resolved(QLearningGetBestMove(board, p2, <<>>))))
            /\ \A p2 \in BOOLEAN : \A key \in {boardToState(board, p2)} : \A row \in QRows :
                  Legal(board, AIOpponentGetBestMove(
                                   Resolved(QLearningGetBestMove(board, p2,
                                                OneKeyTable(key, row)))))
            /\ \A remote \in Remotes :
                  /\ Legal(board, AIOpponentGetBestMove(GroqGetBestMove(board, TRUE, remote)))
                  /\ remote.content = <<>> =>
                        Legal(board, AIOpponentGetBestMove(
                                         GroqGetBestMove(board, FALSE, remote)))

\* the central column is full; the tree search has run and answered, the
\* Q-table has no entry for the board, the remote call throws, and the
\* advisor's answer names the full column
C18_Witness ==
    /\ ~gameOver /\ pc = "done" /\ simCount > 0
    /\ board[0][2] # EMPTY /\ board[0][1] = EMPTY
    /\ Legal(board, MCTSAnswer)
    /\ QLearningGetBestMove(board, TRUE, <<>>) = 1
    /\ GroqGetBestMove(board, TRUE, Throws).value = 1
    /\ GroqGetBestMove(board, FALSE, Answers(<<"2">>)).value = 1
    /\ GroqGetBestMove(board, TRUE, Answers(<<"2">>)).value = 1

\* C19: for every board, either side and a table that does not have the
\* serialized board as a key (the table without keys, and the table whose
\* only key is the board as the other side serializes it), QLearningStrategy.getBestMove returns the first
\* column of the order [2,1,3,0,4] whose entry cell is Empty, and -1 only
\* when every column is full.
C19_UnseenBoardFallback ==
    \A p2 \in BOOLEAN :
      \A qTable \in {<<>>, OneKeyTable(boardToState(board, ~p2), [k \in ActionKeys |-> 1])} :
        boardToState(board, p2) \notin DOMAIN qTable =>
            /\ QLearningGetBestMove(board, p2, qTable) = PreferredOpen(board)
            /\ QLearningGetBestMove(board, p2, qTable) = -1 <=>
                   \A c \in Cols : board[0][c] # EMPTY

\* the three central columns are full in a game in progress: the table has a
\* key, but of the board as the other side serializes it, and the answer is
\* column 0
C19_Witness ==
    /\ ~gameOver
    /\ board[0][2] # EMPTY /\ board[0][1] # EMPTY /\ board[0][3] # EMPTY
    /\ board[0][0] = EMPTY
    /\ boardToState(board, FALSE) # boardToState(board, TRUE)
    /\ QLearningGetBestMove(board, FALSE,
            OneKeyTable(boardToState(board, TRUE), [k \in ActionKeys |-> 1])) = 0

\* the response is a decimal number: digits, after an optional minus sign
IsNumber(response) ==
    LET digits == IF response # <<>> /\ response[1] = "-" THEN Tail(response) ELSE response
    IN  /\ digits # <<>>
        /\ \A i \in 1 .. Len(digits) :
              digits[i] \in {"0", "1", "2", "3", "4", "5", "6", "7", "8", "9"}

\* the value of a digit
DigitValue(ch) ==
    CASE ch = "0" -> 0 [] ch = "1" -> 1 [] ch = "2" -> 2 [] ch = "3" -> 3
      [] ch = "4" -> 4 [] ch = "5" -> 5 [] ch = "6" -> 6 [] ch = "7" -> 7
      [] ch = "8" -> 8 [] ch = "9" -> 9

\* the value of a sequence of digits
RECURSIVE DigitsValue(_)
DigitsValue(digits) ==
    IF digits = <<>> THEN 0
    ELSE 10 * DigitsValue(SubSeq(digits, 1, Len(digits) - 1)) + DigitValue(digits[Len(digits)])

\* the number a response that is a number denotes
NumberValue(response) ==
    IF response[1] = "-" THEN 0 - DigitsValue(Tail(response)) ELSE DigitsValue(response)

\* C20: whenever the remote advisor's answer is a number that is out of range
\* or the number of a full column, GroqOpponent.getBestMove returns the first
\* non-full column in the order [2,1,3,0,4], not a column taken from the answer.
C20_InvalidAnswerFallback ==
    \A response \in Responses :
        (/\ IsNumber(response)
         /\ \/ NumberValue(response) \notin Cols
            \/ board[0][NumberValue(response)] # EMPTY)
        => GroqGetBestMove(board, TRUE, Answers(response)) = Resolved(PreferredOpen(board))

\* C21: whenever a makeAIMove invocation is waiting for the remote advisor
\* on a game in progress, eventually no invocation is waiting any more and
\* the last one to go on has handed its column to makeMove, even if the
\* remote service never responds.
C21_StalledCallDoesNotBlock ==
    (aiAwaiting > 0 /\ ~gameOver) ~> (aiAwaiting = 0 /\ last.op = "makeMove")

\* the side GameLogic has assigned to the AI
AssignedSide == IF aiIsPlayerTwo THEN PLAYER_TWO ELSE PLAYER_ONE

\* C22: in vs-AI mode, every makeAIMove invocation that places a token does so
\* while the current player is the side assigned to the AI.
C22_AIMovesOnOwnTurn ==
    [][(vsAI /\ aiAwaiting' = aiAwaiting - 1 /\ last'.op = "makeMove" /\ last'.ret)
          => currentPlayer = AssignedSide]_vars

\* node i is node n or one of its ancestors in tree t
RECURSIVE OnPath(_, _, _)
OnPath(t, i, n) == n # 0 /\ (i = n \/ OnPath(t, i, t[n].parent))

\* the step ends a rollout: the search goes from the rollout to backpropagation
EndsRollout == pc = "rollout" /\ pc' = "search"

\* the points (in halves) a rollout that ended on board b is worth to player p
HalfPoints(b, p) ==
    IF ~HasLine(b, PLAYER_ONE) /\ ~HasLine(b, PLAYER_TWO) THEN 1
    ELSE IF HasLine(b, p) THEN 2
    ELSE 0

\* C23: the backpropagation of an iteration changes only visits and wins of
\* the nodes from the expanded (or selected) node up to the root: visits + 1,
\* wins + 0.5 after a rollout without winner, + 1 if the winner is the node's
\* playerJustMoved, + 0 otherwise; all other nodes are left as they are.
C23_BackpropagationPath ==
    [][EndsRollout =>
          /\ Len(tree') = Len(tree)
          /\ \A i \in 1 .. Len(tree) :
                IF OnPath(tree, i, node)
                THEN tree'[i] = [tree[i] EXCEPT
                                    !.visits = @ + 1,
                                    !.wins = @ + HalfPoints(state, tree[i].playerJustMoved)]
                ELSE tree'[i] = tree[i]]_vars

\* the second iteration has expanded a second root child, whose player won the
\* rollout: the first child is off the path
C23_Witness ==
    /\ pc = "search" /\ simCount = 2
    /\ Len(tree) = 3 /\ node = 3
    /\ tree[3].parent = 1 /\ tree[2].parent = 1
    /\ tree[3].visits = 1 /\ tree[3].wins = 2
    /\ tree[2].visits = 1
    /\ tree[1].visits = 2

\* the columns in which board b2 differs from board b1
ChangedColumns(b1, b2) == {c \in Cols : \E r \in Rows : b1[r][c] # b2[r][c]}

\* the columns of board b that are not full
NonFull(b) == {c \in Cols : b[0][c] = EMPTY}

\* the columns of the children of node i, as a sequence of sets
ChildColumns(t, i) ==
    [k \in 1 .. Len(t[i].children) |-> ChangedColumns(t[i].state, t[t[i].children[k]].state)]

\* the untried columns and the children's columns of node i partition the
\* non-full columns of its board
Partitioned(t, i) ==
    LET untried == t[i].untriedMoves
        cols == ChildColumns(t, i)
    IN  /\ \A k \in 1 .. Len(cols) : Cardinality(cols[k]) = 1
        /\ SeqToSet(untried) \cup UNION SeqToSet(cols) = NonFull(t[i].state)
        /\ \A j, k \in 1 .. Len(untried) : untried[j] = untried[k] => j = k
        /\ \A j, k \in 1 .. Len(cols) : cols[j] = cols[k] => j = k
        /\ \A j \in 1 .. Len(untried) : \A k \in 1 .. Len(cols) : untried[j] \notin cols[k]

\* the step from tree t to tree u expands node n by column c
Expands(t, u, n, c) ==
    /\ Len(u) = Len(t) + 1
    /\ u[Len(u)].parent = n
    /\ c \in SeqToSet(t[n].untriedMoves)
    /\ SeqToSet(u[n].untriedMoves) = SeqToSet(t[n].untriedMoves) \ {c}
    /\ u[n].children = Append(t[n].children, Len(u))
    /\ ChangedColumns(t[n].state, u[Len(u)].state) = {c}
    /\ \A i \in 1 .. Len(t) : i # n => u[i] = t[i]

\* C24: at every point of a search, for every node of the tree, the untried
\* columns and the columns of its children partition the non-full columns of
\* its board and isFullyExpanded holds iff no column is untried; no step adds
\* an untried column to a node, and a step that changes the untried columns
\* or the children is an expansion: one node loses exactly the expanded
\* column and gains exactly one child.
C24_UntriedMovesPartition ==
    /\ [](\A i \in 1 .. Len(tree) :
            /\ Partitioned(tree, i)
            /\ isFullyExpanded(tree, i) <=> SeqToSet(tree[i].untriedMoves) = {})
    /\ [][pc # "idle" =>
            /\ Len(tree') >= Len(tree)
            /\ \A i \in 1 .. Len(tree) :
                  SeqToSet(tree'[i].untriedMoves) \subseteq SeqToSet(tree[i].untriedMoves)
            /\ \/ /\ Len(tree') = Len(tree)
                  /\ \A i \in 1 .. Len(tree) :
                        /\ tree'[i].untriedMoves = tree[i].untriedMoves
                        /\ tree'[i].children = tree[i].children
               \/ \E n \in 1 .. Len(tree) : \E c \in Cols : Expands(tree, tree', n, c)]_vars

\* both non-full columns of the root have been expanded
C24_Witness ==
    /\ pc = "search"
    /\ Len(tree[1].children) = 2
    /\ isFullyExpanded(tree, 1)
    /\ Cardinality(NonFull(tree[1].state)) = 2

\* board child is board parent plus one token of player p on the lowest Empty
\* cell of a non-full column
OneTokenMore(parent, child, p) ==
    \E c \in NonFull(parent) :
        child = [parent EXCEPT ![LandingCell(parent, c)[1]][c] = p]

\* C25: no step of a getBestMove call changes the game's board or the board
\* of a node that is already in the tree; the root holds the board passed in,
\* the board of every other node is its parent's board plus one token, of the
\* player to move at the parent, on the lowest Empty cell of one column; a
\* rollout starts from the node's board and its moves leave the node's board
\* as it is.
C25_BoardsNeverModified ==
    /\ [](pc # "idle" =>
            /\ tree[1].state = board
            /\ \A i \in 2 .. Len(tree) :
                  OneTokenMore(tree[tree[i].parent].state, tree[i].state,
                               Other(tree[tree[i].parent].playerJustMoved)))
    /\ [][(pc # "idle" \/ pc' # "idle") =>
            /\ board' = board
            /\ Len(tree') >= Len(tree)
            /\ \A i \in 1 .. Len(tree) : tree'[i].state = tree[i].state
            /\ (pc = "search" /\ pc' = "rollout") => state' = tree'[node'].state]_vars

\* a rollout has placed tokens on its own board: the board of the node it
\* started from, a grandchild of the root, is still the one stored at expansion
C25_Witness ==
    /\ pc = "rollout"
    /\ Len(tree) = 3 /\ node = 3 /\ tree[3].parent = 2
    /\ Tokens(state) > Tokens(tree[3].state)
    /\ Tokens(tree[3].state) = Tokens(board) + 2

\* winRate + 0.1 * visits / sims of node a is at least that of node b, where
\* winRate is wins / visits (wins is kept in halves) and 0 for no visits: the
\* inequality multiplied by 10 * sims * visits of a * visits of b
ScoreAtLeast(t, a, b, sims) ==
    LET va == t[a].visits
        vb == t[b].visits
    IN  IF va > 0 /\ vb > 0
        THEN 5 * sims * t[a].wins * vb + va * va * vb >= 5 * sims * t[b].wins * va + vb * vb * va
        ELSE IF va > 0 THEN TRUE
        ELSE IF vb > 0 THEN 5 * sims * t[b].wins + vb * vb <= 0
        ELSE TRUE

\* C26: when the search is left with at least one root child, getBestMove
\* returns the column of a root child whose score winRate + 0.1 * visits /
\* simCount is maximal among the root children, and that column is the one
\* in which the child's board differs from the root's board.
C26_ReturnsBestScoredChild ==
    [][(pc = "search" /\ pc' = "done" /\ Len(tree[1].children) > 0) =>
          \E k \in 1 .. Len(tree[1].children) :
              /\ ChangedColumns(tree[1].state, tree[tree[1].children[k]].state) = {bestMove'}
              /\ \A j \in 1 .. Len(tree[1].children) :
                    ScoreAtLeast(tree, tree[1].children[k], tree[1].children[j], simCount)]_vars

\* the search has ended with two root children and has returned the column of
\* the second one, whose score is higher than the first one's
C26_Witness ==
    /\ pc = "done" /\ simCount = 2
    /\ Len(tree[1].children) = 2
    /\ ~ScoreAtLeast(tree, tree[1].children[1], tree[1].children[2], simCount)
    /\ ChangedColumns(tree[1].state, tree[tree[1].children[2]].state) = {bestMove}

\* C27: when the search is left without any root child (no iteration ran:
\* the budget is 0 or the time cap was reached at once), getBestMove returns
\* the first column of the order 2, 1, 3, 0, 4 whose entry cell is Empty.
C27_NoChildCentralFallback ==
    [][(pc = "search" /\ pc' = "done" /\ Len(tree[1].children) = 0) =>
          /\ bestMove' \in Cols
          /\ board[0][bestMove'] = EMPTY
          /\ bestMove' = PreferredOpen(board)]_vars

\* a search without iterations on a board whose columns 2 and 1 are full has
\* returned column 3
C27_Witness ==
    /\ pc = "done" /\ simCount = 0 /\ Len(tree) = 1
    /\ PreCheck(board, isPlayerTwo) = -1
    /\ board[0][2] # EMPTY /\ board[0][1] # EMPTY /\ board[0][3] = EMPTY
    /\ bestMove = 3

\* the number of parent links from node n of tree t up to the root
RECURSIVE Depth(_, _)
Depth(t, n) == IF t[n].parent = 0 THEN 0 ELSE 1 + Depth(t, t[n].parent)

\* C28: getBestMove terminates. The loop counter never exceeds the budget and
\* every pass of the loop adds one to it and at most one node to the tree; the
\* node a pass selects or expands is at most 15 links below the root; every
\* rollout step places exactly one token, on a board of at most 15 cells; and
\* a call that has entered the search eventually returns.
C28_SearchTerminates ==
    /\ [](pc # "idle" =>
            /\ simCount <= simulationCount
            /\ Len(tree) <= simCount + 1
            /\ \A i \in 1 .. Len(tree) : Depth(tree, i) <= NumRows * NumCols
            /\ pc = "rollout" => Tokens(state) <= NumRows * NumCols)
    /\ [][/\ (pc = "search" /\ pc' = "rollout") =>
                /\ simCount < simulationCount
                /\ simCount' = simCount + 1
                /\ Len(tree') <= Len(tree) + 1
          /\ (pc = "rollout" /\ pc' = "rollout") =>
                /\ Tokens(state') = Tokens(state) + 1
                /\ tree' = tree /\ simCount' = simCount
          /\ (pc = "rollout" /\ pc' = "search") =>
                /\ Len(tree') = Len(tree) /\ simCount' = simCount]_vars
    /\ (pc = "search" \/ pc = "rollout") ~> (pc = "done")

\* a call has used up its budget of two passes, the second of which descended
\* through the root's only child, and has returned
C28_Witness ==
    /\ pc = "done"
    /\ simulationCount = MaxSearchSims /\ simCount = simulationCount
    /\ Len(tree) = 3 /\ tree[3].parent = 2
    /\ bestMove \in Cols

\* the UCB1 value of node a, wins / visits + 1.2 * sqrt(2 ln N / visits) with
\* N the visits of the parent, is at least that of node b below the same
\* parent; an unvisited node counts as infinite. Both sides are multiplied by
\* 2 * visits of a * visits of b * 1000000 (wins is kept in halves).
UCBAtLeast(t, a, b) ==
    LET va == t[a].visits
        vb == t[b].visits
        N == t[t[a].parent].visits
    IN  IF va = 0 THEN TRUE
        ELSE IF vb = 0 THEN FALSE
        ELSE t[a].wins * vb * 1000000 + 2 * va * vb * Exploration[N][va]
               >= t[b].wins * va * 1000000 + 2 * va * vb * Exploration[N][vb]

\* the node at which the selection of a pass of the search loop has ended
Selected == IF Len(tree') > Len(tree) THEN tree'[Len(tree')].parent ELSE node'

\* C29: the selection of every pass descends from the root through nodes that
\* are not terminal, fully expanded and have children, each time to a child
\* whose UCB1 value is maximal among its siblings, and stops at a node that is
\* terminal or not fully expanded; selectChild never returns null; and a node
\* with a terminal board never has a child.
C29_SelectionDescends ==
    /\ [](/\ pc # "threw"
          /\ \A i \in 1 .. Len(tree) : isTerminal(tree, i) => tree[i].children = <<>>)
    /\ [][(pc = "search" /\ pc' = "rollout") =>
            /\ Selected \in 1 .. Len(tree)
            /\ isTerminal(tree, Selected) \/ ~isFullyExpanded(tree, Selected)
            /\ \A c \in 2 .. Len(tree) :
                  OnPath(tree, c, Selected) =>
                      /\ ~isTerminal(tree, tree[c].parent)
                      /\ isFullyExpanded(tree, tree[c].parent)
                      /\ \A k \in 1 .. Len(tree[tree[c].parent].children) :
                            UCBAtLeast(tree, c, tree[tree[c].parent].children[k])]_vars

\* the third pass has descended to the second child of the root, which had
\* won more than the first one, and has expanded it
C29_Witness ==
    /\ pc = "rollout" /\ simCount = 3
    /\ Len(tree) = 4
    /\ tree[2].parent = 1 /\ tree[3].parent = 1 /\ tree[4].parent = 3
    /\ tree[2].visits = 1 /\ tree[3].visits = 1
    /\ tree[3].wins > tree[2].wins

\* board b has a line of three or no Empty cell
Finished(b) == HasLine(b, PLAYER_ONE) \/ HasLine(b, PLAYER_TWO) \/ BoardFull(b)

\* the columns a rollout may choose for player p on board b: the columns that
\* complete a line of p if there is one, else the columns that would complete
\* a line of the opponent if there is one, else any non-full column
RolloutChoices(b, p) ==
    IF WinningColumns(b, p) # {} THEN WinningColumns(b, p)
    ELSE IF WinningColumns(b, Other(p)) # {} THEN WinningColumns(b, Other(p))
    ELSE NonFull(b)

\* C30: a rollout starts on the board of the selected or expanded node with
\* the opponent of the node's playerJustMoved to move; every rollout step is
\* taken on a board without a line and with an Empty cell, by the opponent of
\* the previous mover, who places one token on the lowest Empty cell of a
\* non-full column: one that completes a line of the mover if there is one,
\* else one that would complete a line of the opponent if there is one, else
\* any; and the rollout ends only on a board with a line or without Empty cell.
C30_RolloutPolicy ==
    [][/\ (pc = "search" /\ pc' = "rollout") =>
             /\ state' = tree'[node'].state
             /\ playerJustMoved' = tree'[node'].playerJustMoved
       /\ (pc = "rollout" /\ pc' = "rollout") =>
             /\ ~Finished(state)
             /\ playerJustMoved' = Other(playerJustMoved)
             /\ \E c \in RolloutChoices(state, playerJustMoved') :
                   state' = [state EXCEPT ![LandingCell(state, c)[1]][c] = playerJustMoved']
       /\ (pc = "rollout" /\ pc' = "search") => Finished(state)]_vars

\* the first step of a rollout has blocked the line the opponent was about to
\* complete, the mover having no line to complete
C30_Witness ==
    /\ pc = "rollout"
    /\ Tokens(state) = Tokens(tree[node].state) + 1
    /\ playerJustMoved = Other(tree[node].playerJustMoved)
    /\ WinningColumns(tree[node].state, playerJustMoved) = {}
    /\ WinningColumns(tree[node].state, Other(playerJustMoved)) # {}
    /\ ChangedColumns(tree[node].state, state)
          \subseteq WinningColumns(tree[node].state, Other(playerJustMoved))
    /\ Cardinality(NonFull(tree[node].state)) >= 2

\* C31: in every reachable state in which the game-over flag is false the
\* board holds no line of three tokens of either player and has an Empty
\* cell; no reachable board holds a line of three of each player.
C31_InProgressBoardHasNoLine ==
    /\ ~gameOver =>
          /\ ~HasLine(board, PLAYER_ONE)
          /\ ~HasLine(board, PLAYER_TWO)
          /\ ~BoardFull(board)
    /\ ~(HasLine(board, PLAYER_ONE) /\ HasLine(board, PLAYER_TWO))

\* a game still in progress with a single Empty cell left, after a move that
\* filled a column
C31_Witness ==
    /\ ~gameOver
    /\ Placed /\ last.ret /\ last.row = 0
    /\ Count(board, EMPTY) = 1

\* C32: on every board reached by an accepted move the anchored checkWinner
\* reports a win exactly when the full-board scan checkWin does for the mover
\* (and checkWin reports nothing for the other player), the row-0 test
\* MCTSOpponent.isBoardFull agrees with the all-cells GameLogic.isBoardFull,
\* and so MCTSOpponent.isGameOver holds of the board exactly when the
\* game-over flag is set.
C32_WinDetectorsAgree ==
    (Placed /\ last.ret) =>
        LET mover == At(board, PlacedCell) IN
        /\ (checkWinner(board, last.row, last.col) # <<>>) <=> checkWin(board, mover)
        /\ ~checkWin(board, Other(mover))
        /\ mctsIsBoardFull(board) <=> isBoardFull(board)
        /\ isGameOver(board) <=> gameOver

\* the move that filled the last cell completed a rising diagonal: both win
\* detectors and both full-board tests report
C32_Witness ==
    /\ Placed /\ last.ret /\ gameOver
    /\ mctsIsBoardFull(board) /\ isBoardFull(board)
    /\ checkWin(board, At(board, PlacedCell))
    /\ \E c \in 0 .. 2 :
          {<<2, c>>, <<1, c + 1>>, <<0, c + 2>>} \in LinesThrough(board, At(board, PlacedCell), PlacedCell)
    /\ checkWinner(board, last.row, last.col) # <<>>

\* C33: in vs-AI mode every token placed by a key press belongs to the human's
\* side: a makeMove call from the key-press handler (the call that resumes no
\* suspended makeAIMove) made while the current player is the AI's assigned
\* side places no token.
C33_KeyPressOnHumanTurnOnly ==
    [][(/\ vsAI
        /\ last'.op = "makeMove" /\ aiAwaiting' = aiAwaiting
        /\ currentPlayer = AssignedSide)
       => last'.row = -1 /\ board' = board]_vars

\* C34: in vs-AI mode, after every accepted move, every reset and every
\* change of the AI's side or of the vs-AI flag that leaves the game in
\* progress with the AI's assigned side to move, an AI move is pending: a
\* makeAIMove timer is set, a makeAIMove invocation is waiting for the
\* strategy, or a resetGame invocation is about to set the timer after its
\* render delay.
C34_AIMovePendingOnAITurn ==
    [][(/\ vsAI' /\ ~gameOver' /\ currentPlayer' = (IF aiIsPlayerTwo' THEN PLAYER_TWO ELSE PLAYER_ONE)
        /\ \/ last'.op = "makeMove" /\ last'.ret
           \/ last'.op = "resetGame"
           \/ aiIsPlayerTwo' # aiIsPlayerTwo
           \/ vsAI' # vsAI)
       => aiTimers' + aiAwaiting' + resetWaiting' > 0]_vars

\* C35: the column returned to makeAIMove is applied to the board it was
\* computed from: while a makeAIMove invocation is waiting for the answer of
\* getBestMove, no step other than the invocation going on changes the board,
\* the current player or the game-over flag.
C35_BoardStableWhileAwaiting ==
    [][(aiAwaiting > 0 /\ aiAwaiting' >= aiAwaiting)
       => /\ board' = board
          /\ currentPlayer' = currentPlayer
          /\ gameOver' = gameOver]_vars

\* C36: every game that ends is eventually reset: a step that sets the
\* game-over flag, whether a key press or a move of the AI, schedules exactly
\* one reset, no other step schedules one, and from every state with the flag
\* set the game returns to the empty board in progress with PlayerOne to move.
C36_EveryEndedGameIsReset ==
    /\ [][(~gameOver /\ gameOver') => resetTimers' = resetTimers + 1]_vars
    /\ [][(resetTimers' > resetTimers) => (~gameOver /\ gameOver')]_vars
    /\ gameOver ~> (~gameOver /\ board = EmptyBoard /\ currentPlayer = PLAYER_ONE)

\* C37: after any sequence of setIsPlayerTwo and setStrategy calls the side
\* stored in the active strategy equals AIOpponent.isPlayerTwo.
C37_StrategySideInSync ==
    isPlayerTwo = aiIsPlayerTwo

\* the strategy has just been switched to the remote advisor while the AI is
\* PlayerOne, during a game
C37_Witness ==
    /\ last.op = "setAIStrategy"
    /\ strategy = "groq"
    /\ ~aiIsPlayerTwo /\ ~isPlayerTwo
    /\ Tokens(board) > 0

\* the sum of the visit counts of the nodes ch[i], ch[i + 1], ... of tree t
RECURSIVE SumVisits(_, _, _)
SumVisits(t, ch, i) ==
    IF i > Len(ch) THEN 0 ELSE t[ch[i]].visits + SumVisits(t, ch, i + 1)

\* C38: after every completed pass of the search loop the root's visit count
\* is the number of passes run, every node's visit count is at least the sum
\* of its children's, every node has 0 <= wins <= visits (wins are counted in
\* half points, so every value is a multiple of 0.5), every child's
\* playerJustMoved is the opponent of its parent's, and every node but the
\* root has been visited.
C38_TreeCountsConsistent ==
    (pc = "search" \/ pc = "done") =>
        /\ tree[1].visits = simCount
        /\ \A n \in 1 .. Len(tree) :
              /\ tree[n].visits >= SumVisits(tree, tree[n].children, 1)
              /\ 0 <= tree[n].wins /\ tree[n].wins <= 2 * tree[n].visits
              /\ \A i \in 1 .. Len(tree[n].children) :
                    /\ tree[tree[n].children[i]].parent = n
                    /\ tree[tree[n].children[i]].playerJustMoved = Other(tree[n].playerJustMoved)
              /\ n # 1 => tree[n].visits >= 1

\* three passes have been completed and have added three nodes, one of them
\* below a child of the root, and a rollout has ended in a draw
C38_Witness ==
    /\ pc = "search" /\ simCount = 3
    /\ Len(tree) = 4 /\ tree[1].visits = 3
    /\ \E n \in 2 .. 4 : tree[n].parent # 1
    /\ \E n \in 1 .. 4 : tree[n].wins % 2 = 1

====
